---------------------------- MODULE Spec2Model ----------------------------
(***************************************************************************)
(* A model of the cairo HTTP framework (JonesBeach/cairo).                 *)
(*                                                                         *)
(*   SpecPool   core/thread_pool.rs: ThreadPool::new, execute, Drop and     *)
(*              the Worker loop, with jobs that return or panic.           *)
(*   FairPool   SpecPool with the fairness the OS scheduler gives the      *)
(*              worker threads.                                            *)
(*   SpecFrame  server.rs: fill_buffer and parse_request on one stream     *)
(*              whose bytes arrive in reads of any sizes; the request      *)
(*              parser of http/request.rs on the bytes it returns.         *)
(*   SpecParse  http/request.rs: Request::try_from on one text, and the    *)
(*              Request the structured constructor makes of the same data. *)
(*   SpecMatch  router.rs: match_route on one pattern and one path.        *)
(*   SpecRouter router.rs: a Router built by Router::route and asked by    *)
(*              Router::call, the iteration over its map in any order.     *)
(*   SpecDispatch handler.rs, extract.rs: call_handler of a handler with   *)
(*              arguments, one step for each extraction.                   *)
(*   SpecSend   server.rs: send_response on a stream whose write may accept *)
(*              fewer bytes than it is given; http/response.rs.            *)
(*   SpecConn   server.rs: the closure serve runs for one connection, from *)
(*              parse_request to the drop of the stream; FairConn adds     *)
(*              that the closure's thread keeps running.                   *)
(*   SpecAccept server.rs: the accept loop of serve with one connection    *)
(*              and its closure.                                           *)
(*   SpecServe  server.rs: serve, its pool of four workers and the         *)
(*              closure it runs for each accepted connection.              *)
(***************************************************************************)
EXTENDS Integers, Sequences, FiniteSets, TLC

VARIABLES
    \* ---- core/thread_pool.rs ----
    pool_state,   \* where the owner of the ThreadPool is (see PoolStates)
    workers,      \* ThreadPool.workers.len()
    channel,      \* the mpsc channel: messages sent and not yet received
    sender_alive, \* ThreadPool.sender has not been dropped
    lock_holder,  \* worker holding the Mutex<Receiver>, or NoWorker
    thread,       \* thread[w]: where worker w's thread is (see ThreadStates)
    job,          \* job[w]: the job worker w is running, or NoJob
    submitted,    \* number of calls of execute so far (jobs are 1..submitted)
    started,      \* started[j]: how many times job j was called
    completed,    \* completed[j]: how many times job j returned
    term_sent,    \* Terminate messages sent by drop
    term_recv,    \* term_recv[w]: Terminate messages worker w received
    joined,       \* worker threads drop has joined
    at_drop,      \* what drop found: jobs still queued, jobs running
    \* ---- server.rs: fill_buffer and parse_request on one stream ----
    build,            \* "debug" (overflow checks) or "release" (wrapping)
    stream_data,      \* the bytes the peer sends before it closes
    stream_pos,       \* how many of them the reads have delivered
    buffer,           \* fill_buffer's accumulator
    headers_complete, \* fill_buffer's flag
    content_length,   \* fill_buffer's counter of body bytes still to read
    bytewise,         \* every read so far delivered exactly one byte
    zero_read,        \* a call of stream.read returned Ok(0)
    result,           \* what parse_request returned (kind "pending": nothing)
    \* ---- server.rs: serve ----
    accept_failed,    \* listener.incoming() gave an Err at least once
    \* ---- http/request.rs: Request::try_from on one text ----
    in_line,          \* the tokens of the first line
    in_form,          \* how the text is laid out (see Forms)
    in_headers,       \* the header lines, as items name, separator, value
    in_body,          \* what follows the empty line: NoBody or Some(text)
    try_result,       \* what Request::try_from returned ("none": not called)
    built,            \* the Request made by with_headers and set_body
    \* ---- router.rs: match_route on one pattern and one path ----
    route_pattern,    \* the pattern: leading slashes and segments
    route_path,       \* the path: leading slashes and segments
    match_result,     \* what match_route returned (kind "none": not called)
    \* ---- router.rs: Router ----
    routes,           \* Router.routes: pattern -> table of method -> handler
    registered,       \* the calls of Router::route so far, in order
    call,             \* the last call of Router::call (NoCall: none yet)
    \* ---- handler.rs, extract.rs: one call of a handler with arguments ----
    handler_args,     \* the extractor types of the handler's arguments
    dispatch_request, \* the Request call_handler was given
    extracted,        \* the extractions run so far, in the order they ran
    invoked,          \* how many times the handler function was called
    handler_response, \* what call_handler returned (NoResponse: not yet)
    \* ---- server.rs: send_response on one stream ----
    sending,          \* the Response send_response was given
    send_pc,          \* where send_response is: "idle", "write", "flush", "done"
    wire,             \* the bytes the stream has accepted
    send_result,      \* what send_response returned (kind "none": not yet)
    \* ---- server.rs: the closure serve runs for one connection ----
    conn_data,        \* the bytes the peer sends before it closes its side
    conn_router,      \* the Router serve was given
    conn_pc,          \* where the closure is (see Conn_ actions)
    conn_trail,       \* the states the connection went through, in order
    conn_parsed,      \* what parse_request returned (kind "pending": not yet)
    conn_response,    \* what router.call returned (NoResponse: not yet)
    router_calls,     \* calls of router.call for the connection
    conn_log          \* what the closure and the panic hook printed

poolVars == <<pool_state, workers, channel, sender_alive, lock_holder, thread,
              job, submitted, started, completed, term_sent, term_recv,
              joined, at_drop>>

frameVars == <<build, stream_data, stream_pos, buffer, headers_complete,
               content_length, bytewise, zero_read, result>>

serveVars == <<accept_failed>>

parseVars == <<in_line, in_form, in_headers, in_body, try_result, built>>

matchVars == <<route_pattern, route_path, match_result>>

routerVars == <<routes, registered, call>>

dispatchVars == <<handler_args, dispatch_request, extracted, invoked,
                  handler_response>>

sendVars == <<sending, send_pc, wire, send_result>>

connVars == <<conn_data, conn_router, conn_pc, conn_trail, conn_parsed,
              conn_response, router_calls, conn_log>>

nonPoolVars == <<frameVars, serveVars, parseVars, matchVars, routerVars,
                 dispatchVars, sendVars, connVars>>

vars == <<poolVars, frameVars, serveVars, parseVars, matchVars, routerVars,
          dispatchVars, sendVars, connVars>>

-----------------------------------------------------------------------------
(* Bounds of the model.                                                    *)

\* Largest pool size given to ThreadPool::new.
MaxSize == 2
\* Largest number of jobs submitted to one pool.
MaxJobs == 2

WorkerIds == 0 .. MaxSize - 1
Jobs == 1 .. MaxJobs
NoWorker == -1
NoJob == 0

PoolStates == {"unbuilt", "new_panicked", "alive", "execute_panicked",
               "drop_send", "drop_join", "dropped", "drop_panicked"}
ThreadStates == {"absent", "lock", "recv", "run", "exited", "panicked"}

-----------------------------------------------------------------------------
(* The messages and the channel.                                           *)

NewJob(j) == [type |-> "NewJob", job |-> j]
Terminate == [type |-> "Terminate", job |-> NoJob]

\* The Arc<Mutex<Receiver>> is owned by the worker closures only (the local of
\* ThreadPool::new goes out of scope): it lives while one worker thread does.
ReceiverAlive == \E w \in DOMAIN thread : thread[w] \in {"lock", "recv", "run"}

\* A channel that hands out the newest message first.
SendFirst(ch, m) == <<m>> \o ch

\* Sender::send on the unbounded channel: appends, never blocks.
SendBounded(ch, m) == IF Len(ch) >= 1 THEN ch ELSE Append(ch, m)
Send(ch, m) == Append(ch, m)

\* Receiver::recv takes the oldest message out of the channel.
RecvKeepsMessage(ch) == ch
RecvRest(ch) == Tail(ch)

-----------------------------------------------------------------------------
(* ThreadPool::new                                                         *)

PoolFresh(ids, jobs) ==
    /\ pool_state = "unbuilt"
    /\ workers = 0
    /\ channel = << >>
    /\ sender_alive = FALSE
    /\ lock_holder = NoWorker
    /\ thread = [w \in ids |-> "absent"]
    /\ job = [w \in ids |-> NoJob]
    /\ submitted = 0
    /\ started = [j \in jobs |-> 0]
    /\ completed = [j \in jobs |-> 0]
    /\ term_sent = 0
    /\ term_recv = [w \in ids |-> 0]
    /\ joined = {}
    /\ at_drop = [queued |-> 0, running |-> 0]

\* No pool yet, for at most MaxSize workers and MaxJobs jobs.
PoolInit == PoolFresh(WorkerIds, Jobs)

\* The workers `for id in 0..size` pushes.
Spawned(size) == 0 .. size - 1

\* assert!(size > 0), the channel, one Worker::new per id.  The spawned
\* threads can only take the lock and block in recv before new returns, so
\* the construction is one step.
ThreadPool_new(size) ==
    /\ pool_state = "unbuilt"
    /\ IF size > 0
       THEN /\ pool_state' = "alive"
            /\ workers' = size
            /\ sender_alive' = TRUE
            /\ thread' = [w \in DOMAIN thread |->
                            IF w \in Spawned(size) THEN "lock" ELSE "absent"]
       ELSE /\ pool_state' = "new_panicked"
            /\ UNCHANGED <<workers, sender_alive, thread>>
    /\ UNCHANGED <<channel, lock_holder, job, submitted, started, completed,
                   term_sent, term_recv, joined, at_drop>>
    /\ UNCHANGED nonPoolVars

-----------------------------------------------------------------------------
(* ThreadPool::execute                                                     *)

\* Box the closure and send NewJob; a send on a channel whose receiver is
\* gone fails and `expect("Failed to send.")` panics in the caller.
ThreadPool_execute ==
    /\ pool_state = "alive"
    /\ submitted < Cardinality(DOMAIN started)
    /\ submitted' = submitted + 1
    /\ IF ReceiverAlive
       THEN /\ channel' = Send(channel, NewJob(submitted + 1))
            /\ UNCHANGED pool_state
       ELSE /\ pool_state' = "execute_panicked"
            /\ UNCHANGED channel
    /\ UNCHANGED <<workers, sender_alive, lock_holder, thread, job, started,
                   completed, term_sent, term_recv, joined,
                   at_drop>>
    /\ UNCHANGED nonPoolVars

-----------------------------------------------------------------------------
(* impl Drop for ThreadPool                                                *)

QueuedJobs(ch) == Len(SelectSeq(ch, LAMBDA m : m.type = "NewJob"))
RunningJobs == Cardinality({w \in DOMAIN thread : thread[w] = "run"})

\* The pool goes out of scope: drop starts.
Drop_begin ==
    /\ pool_state = "alive"
    /\ pool_state' = "drop_send"
    /\ at_drop' = [queued |-> QueuedJobs(channel), running |-> RunningJobs]
    /\ UNCHANGED <<workers, channel, sender_alive, lock_holder, thread, job,
                   submitted, started, completed, term_sent,
                   term_recv, joined>>
    /\ UNCHANGED nonPoolVars

\* How many Terminate messages the first loop of drop sends.
TerminatesOneTooFew == workers - 1
TerminatesToSend == workers

\* One iteration of `for _ in &self.workers { send(Terminate) }`; after the
\* last one the join loop starts.
Drop_send_Terminate ==
    /\ pool_state = "drop_send"
    /\ IF term_sent >= TerminatesToSend
       THEN /\ pool_state' = "drop_join"
            /\ UNCHANGED <<channel, term_sent, sender_alive>>
       ELSE IF ReceiverAlive
       THEN /\ channel' = Send(channel, Terminate)
            /\ term_sent' = term_sent + 1
            /\ UNCHANGED <<pool_state, sender_alive>>
       ELSE \* expect("Failed to send termination message.")
            /\ pool_state' = "drop_panicked"
            /\ sender_alive' = FALSE
            /\ UNCHANGED <<channel, term_sent>>
    /\ UNCHANGED <<workers, lock_holder, thread, job, submitted, started,
                   completed, term_recv, joined, at_drop>>
    /\ UNCHANGED nonPoolVars

\* The worker the join loop is at: workers are joined in id order.
NextToJoin == Cardinality(joined)

\* JoinHandle::join returns once the thread has ended.
JoinReturnsAtOnce(w) == TRUE
JoinReturns(w) == thread[w] \in {"exited", "panicked"}

\* One iteration of the join loop: join blocks until the thread has ended and
\* gives Err when it panicked, which `expect("Failed to join.")` turns into a
\* panic of drop; the unwinding drops the sender.
Drop_join ==
    /\ pool_state = "drop_join"
    /\ IF NextToJoin >= workers
       THEN /\ pool_state' = "dropped"
            /\ sender_alive' = FALSE
            /\ UNCHANGED joined
       ELSE /\ JoinReturns(NextToJoin)
            /\ IF thread[NextToJoin] = "panicked"
               THEN /\ pool_state' = "drop_panicked"
                    /\ sender_alive' = FALSE
                    /\ UNCHANGED joined
               ELSE /\ joined' = joined \cup {NextToJoin}
                    /\ UNCHANGED <<pool_state, sender_alive>>
    /\ UNCHANGED <<workers, channel, lock_holder, thread, job, submitted,
                   started, completed, term_sent, term_recv,
                   at_drop>>
    /\ UNCHANGED nonPoolVars

-----------------------------------------------------------------------------
(* Worker::new: the loop of the spawned thread                             *)

\* receiver.lock(): blocks while another worker holds the mutex.  No thread
\* panics while it holds the guard, so the lock is never poisoned.
Worker_lock(w) ==
    /\ thread[w] = "lock"
    /\ lock_holder = NoWorker
    /\ lock_holder' = w
    /\ thread' = [thread EXCEPT ![w] = "recv"]
    /\ UNCHANGED <<pool_state, workers, channel, sender_alive, job, submitted,
                   started, completed, term_sent, term_recv,
                   joined, at_drop>>
    /\ UNCHANGED nonPoolVars

\* A worker that goes round its loop after a Terminate.
LoopsOnTerminate == "lock"

\* `Ok(Message::Terminate) => { ...; break; }`: the thread ends.
OnTerminate == "exited"

\* A worker whose guard lives until the end of the match on the message.
GuardHeldInMatch(w) == w

\* The MutexGuard is a temporary of the `let job = ...;` statement: it is
\* dropped at the end of the statement, before the match on the message.
GuardAfterLet(w) == NoWorker

\* .recv() and the match on its result.  recv blocks while the channel is
\* empty and a sender lives; the guard is a temporary of the `let`, so the
\* lock is released before the match.  NewJob: the job is called.  Terminate
\* or Err (channel disconnected): the loop ends.
Worker_recv(w) ==
    /\ thread[w] = "recv"
    /\ lock_holder = w
    /\ channel # << >> \/ ~sender_alive
    /\ lock_holder' = GuardAfterLet(w)
    /\ IF channel = << >>
       THEN \* Err(_)
            /\ thread' = [thread EXCEPT ![w] = "exited"]
            /\ UNCHANGED <<channel, job, started, term_recv>>
       ELSE /\ channel' = RecvRest(channel)
            /\ IF Head(channel).type = "NewJob"
               THEN LET j == Head(channel).job IN
                    /\ thread' = [thread EXCEPT ![w] = "run"]
                    /\ job' = [job EXCEPT ![w] = j]
                    /\ started' = [started EXCEPT ![j] = @ + 1]
                    /\ UNCHANGED term_recv
               ELSE /\ thread' = [thread EXCEPT ![w] = OnTerminate]
                    /\ term_recv' = [term_recv EXCEPT ![w] = @ + 1]
                    /\ UNCHANGED <<job, started>>
    /\ UNCHANGED <<pool_state, workers, sender_alive, submitted, completed,
                   term_sent, joined, at_drop>>
    /\ UNCHANGED nonPoolVars

\* job() returns: the loop goes round.
Job_return(w) ==
    /\ thread[w] = "run"
    /\ completed' = [completed EXCEPT ![job[w]] = @ + 1]
    /\ job' = [job EXCEPT ![w] = NoJob]
    /\ thread' = [thread EXCEPT ![w] = "lock"]
    /\ UNCHANGED <<pool_state, workers, channel, sender_alive, lock_holder,
                   submitted, started, term_sent, term_recv,
                   joined, at_drop>>
    /\ UNCHANGED nonPoolVars

\* job() panics: nothing catches the unwinding, the worker's thread ends and
\* its clone of the receiver is dropped.
Job_panic(w) ==
    /\ thread[w] = "run"
    /\ job' = [job EXCEPT ![w] = NoJob]
    /\ thread' = [thread EXCEPT ![w] = "panicked"]
    /\ UNCHANGED <<pool_state, workers, channel, sender_alive, lock_holder,
                   submitted, started, completed, term_sent,
                   term_recv, joined, at_drop>>
    /\ UNCHANGED nonPoolVars


-----------------------------------------------------------------------------
(* Bytes and text.  A byte is a one-character string; InvalidByte stands    *)
(* for the byte 0x80, which is not valid UTF-8 anywhere in a text whose     *)
(* other bytes are ASCII.                                                   *)

InvalidByte == "x80"
CRLF == <<"\r", "\n">>

\* str::from_utf8(bytes).is_ok()
Utf8Valid(bytes) == \A i \in 1 .. Len(bytes) : bytes[i] # InvalidByte

\* The first index (from 1) at which pat occurs in s, 0 when it does not.
Find(s, pat) ==
    LET hits == {i \in 1 .. Len(s) - Len(pat) + 1 :
                    SubSeq(s, i, i + Len(pat) - 1) = pat}
    IN  IF hits = {} THEN 0 ELSE CHOOSE i \in hits : \A k \in hits : i <= k

\* str::starts_with
StartsWith(s, pat) == Len(s) >= Len(pat) /\ SubSeq(s, 1, Len(pat)) = pat

\* str::split(pat): the pieces between the occurrences of pat, at least one.
RECURSIVE Split(_, _)
Split(s, pat) ==
    LET i == Find(s, pat)
    IN  IF i = 0 THEN <<s>>
        ELSE <<SubSeq(s, 1, i - 1)>>
                 \o Split(SubSeq(s, i + Len(pat), Len(s)), pat)

\* str::split in the place of splitn(2, pat): a piece for every occurrence.
SplitAtEvery(s, pat) == Split(s, pat)

\* str::splitn(2, pat): split at the first occurrence of pat only.
Splitn2(s, pat) ==
    LET i == Find(s, pat)
    IN  IF i = 0 THEN <<s>>
        ELSE <<SubSeq(s, 1, i - 1), SubSeq(s, i + Len(pat), Len(s))>>

\* char::is_whitespace on the bytes of the model.
Whitespace == {" ", "\t", "\r", "\n"}

\* str::split_whitespace: the maximal runs of non-whitespace.
RECURSIVE SplitWhitespace(_)
SplitWhitespace(s) ==
    IF s = << >> THEN << >>
    ELSE IF Head(s) \in Whitespace THEN SplitWhitespace(Tail(s))
    ELSE LET ws == {i \in 1 .. Len(s) : s[i] \in Whitespace}
             e == IF ws = {} THEN Len(s) + 1
                  ELSE CHOOSE i \in ws : \A k \in ws : i <= k
         IN  <<SubSeq(s, 1, e - 1)>> \o SplitWhitespace(SubSeq(s, e, Len(s)))

\* str::trim
Trim(s) ==
    LET keep == {i \in 1 .. Len(s) : s[i] \notin Whitespace}
    IN  IF keep = {} THEN << >>
        ELSE SubSeq(s, CHOOSE i \in keep : \A k \in keep : i <= k,
                       CHOOSE i \in keep : \A k \in keep : i >= k)

\* [&str]::join(sep)
\* A join that puts a bare line feed between the parts.
RECURSIVE JoinWithLineFeed(_, _)
JoinWithLineFeed(parts, sep) ==
    IF parts = << >> THEN << >>
    ELSE IF Len(parts) = 1 THEN parts[1]
    ELSE parts[1] \o <<"\n">> \o JoinWithLineFeed(Tail(parts), sep)

RECURSIVE Join(_, _)
Join(parts, sep) ==
    IF parts = << >> THEN << >>
    ELSE IF Len(parts) = 1 THEN parts[1]
    ELSE parts[1] \o sep \o Join(Tail(parts), sep)

Digits == <<"0", "1", "2", "3", "4", "5", "6", "7", "8", "9">>
IsDigit(c) == \E d \in 1 .. 10 : Digits[d] = c
DigitValue(c) == (CHOOSE d \in 1 .. 10 : Digits[d] = c) - 1

RECURSIVE DecimalValue(_)
DecimalValue(ds) ==
    IF ds = << >> THEN 0
    ELSE 10 * DecimalValue(SubSeq(ds, 1, Len(ds) - 1)) + DigitValue(ds[Len(ds)])

\* The longest digit string whose value the model computes; every
\* Content-Length of the model's streams is shorter.
MaxDigits == 9

\* str::parse::<usize>: an optional "+", then one or more decimal digits, the
\* value within usize.
ParseUsize(str) ==
    LET ds == IF str # << >> /\ Head(str) = "+" THEN Tail(str) ELSE str
    IN  IF ds = << >> \/ (\E i \in 1 .. Len(ds) : ~IsDigit(ds[i]))
           \/ Len(ds) > MaxDigits
        THEN [ok |-> FALSE, value |-> 0]
        ELSE [ok |-> TRUE, value |-> DecimalValue(ds)]

LowerCase == <<"a", "b", "c", "d", "e", "f", "g", "h", "i", "j", "k", "l", "m",
               "n", "o", "p", "q", "r", "s", "t", "u", "v", "w", "x", "y", "z">>
UpperCase == <<"A", "B", "C", "D", "E", "F", "G", "H", "I", "J", "K", "L", "M",
               "N", "O", "P", "Q", "R", "S", "T", "U", "V", "W", "X", "Y", "Z">>

\* str::to_uppercase
ToUppercase(s) ==
    [i \in 1 .. Len(s) |->
        IF \E k \in 1 .. 26 : LowerCase[k] = s[i]
        THEN UpperCase[CHOOSE k \in 1 .. 26 : LowerCase[k] = s[i]]
        ELSE s[i]]

-----------------------------------------------------------------------------
(* http/method.rs and http/request.rs                                      *)

\* The match of Method::try_from, on the upper-cased token.
MethodNames ==
    {<<<<"G", "E", "T">>, "Get">>,
     <<<<"P", "O", "S", "T">>, "Post">>,
     <<<<"O", "P", "T", "I", "O", "N", "S">>, "Options">>,
     <<<<"H", "E", "A", "D">>, "Head">>,
     <<<<"P", "U", "T">>, "Put">>,
     <<<<"D", "E", "L", "E", "T", "E">>, "Delete">>,
     <<<<"P", "A", "T", "C", "H">>, "Patch">>}

\* Method::try_from: the Method, or "InvalidMethodError".
Method_try_from(value) ==
    LET up == ToUppercase(value)
    IN  IF \E m \in MethodNames : m[1] = up
        THEN (CHOOSE m \in MethodNames : m[1] = up)[2]
        ELSE "InvalidMethodError"

\* The version the parser refuses with unimplemented!.
Http2 == <<"H", "T", "T", "P", "/", "2", ".", "0">>

NoBody == [some |-> FALSE, text |-> << >>]
Some(text) == [some |-> TRUE, text |-> text]

\* Request::with_headers
Request_with_headers(method, path, headers) ==
    [method |-> method, path |-> path, headers |-> headers,
     path_params |-> << >>, body |-> NoBody]

NoRequest == Request_with_headers("none", << >>, << >>)
InvalidRequestError == [kind |-> "Err", request |-> NoRequest]
Unimplemented == [kind |-> "panic", request |-> NoRequest]

\* A header loop without the break at the empty line.
EveryLine(lines) == lines

\* The header lines: those before the first empty line.
HeaderLines(lines) ==
    LET empty == {i \in 1 .. Len(lines) : lines[i] = << >>}
    IN  IF empty = {} THEN lines
        ELSE SubSeq(lines, 1, (CHOOSE i \in empty : \A k \in empty : i <= k) - 1)

\* The lines the header loop leaves in the iterator: those after the first
\* empty line.
BodyLines(lines) ==
    LET empty == {i \in 1 .. Len(lines) : lines[i] = << >>}
    IN  IF empty = {} THEN << >>
        ELSE SubSeq(lines, (CHOOSE i \in empty : \A k \in empty : i <= k) + 1,
                    Len(lines))

\* impl TryFrom<&str> for Request: Ok(request), Err(InvalidRequestError) or
\* the panic of unimplemented!.
Request_try_from(value) ==
    LET lines == Split(value, CRLF)
        request_line_parts == SplitWhitespace(lines[1])
        n == Len(request_line_parts)
    IN  IF n < 1 THEN InvalidRequestError
        ELSE IF Method_try_from(request_line_parts[1]) = "InvalidMethodError"
        THEN InvalidRequestError
        ELSE IF n < 3 THEN InvalidRequestError
        ELSE IF request_line_parts[3] = Http2 THEN Unimplemented
        ELSE IF n > 3 THEN InvalidRequestError
        ELSE LET hl == HeaderLines(Tail(lines))
                 body == Join(BodyLines(Tail(lines)), CRLF)
             IN  IF \E i \in 1 .. Len(hl) : Len(Splitn2(hl[i], <<":", " ">>)) < 2
                 THEN InvalidRequestError
                 ELSE [kind |-> "Ok",
                       request |->
                         [Request_with_headers(
                              Method_try_from(request_line_parts[1]),
                              request_line_parts[2],
                              [i \in 1 .. Len(hl) |-> Splitn2(hl[i], <<":", " ">>)])
                          EXCEPT !.body = IF body = << >> THEN NoBody
                                          ELSE Some(body)]]

-----------------------------------------------------------------------------
(* The byte streams of the model: what a peer sends before it closes.      *)

\* test_parse_request_valid_root: no body
GetRoot ==
    <<"G", "E", "T", " ", "/", " ", "H", "T", "T", "P", "/", "1", ".", "1",
      "\r", "\n", "H", "o", "s", "t", ":", " ", "a", "\r", "\n", "\r", "\n">>

\* a body of Content-Length bytes
PostBody ==
    <<"P", "O", "S", "T", " ", "/", "p", " ", "H", "T", "T", "P", "/", "1",
      ".", "1", "\r", "\n", "C", "o", "n", "t", "e", "n", "t", "-", "L", "e",
      "n", "g", "t", "h", ":", " ", "3", "\r", "\n", "\r", "\n", "a", "b",
      "c">>

\* a body that holds the terminator again
PostBodyWithTerminator ==
    <<"P", "O", "S", "T", " ", "/", "p", " ", "H", "T", "T", "P", "/", "1",
      ".", "1", "\r", "\n", "C", "o", "n", "t", "e", "n", "t", "-", "L", "e",
      "n", "g", "t", "h", ":", " ", "5", "\r", "\n", "\r", "\n", "\r", "\n",
      "\r", "\n", "\r">>

\* test_parse_request_invalid_format
InvalidFormat ==
    <<"I", "N", "V", "A", "L", "I", "D", " ", "R", "E", "Q", "U", "E", "S",
      "T", "\r", "\n", "\r", "\n">>

\* test_parse_request_invalid_utf8
InvalidUtf8Head ==
    <<InvalidByte, InvalidByte, "\r", "\n", "\r", "\n">>

\* malformed UTF-8 in the body
InvalidUtf8Body ==
    <<"P", "O", "S", "T", " ", "/", "p", " ", "H", "T", "T", "P", "/", "1",
      ".", "1", "\r", "\n", "C", "o", "n", "t", "e", "n", "t", "-", "L", "e",
      "n", "g", "t", "h", ":", " ", "2", "\r", "\n", "\r", "\n", InvalidByte,
      "a">>

\* a Content-Length that is no number
BadContentLength ==
    <<"P", "O", "S", "T", " ", "/", "p", " ", "H", "T", "T", "P", "/", "1",
      ".", "1", "\r", "\n", "C", "o", "n", "t", "e", "n", "t", "-", "L", "e",
      "n", "g", "t", "h", ":", " ", "x", "\r", "\n", "\r", "\n">>

\* the version the parser refuses
Http2Request ==
    <<"G", "E", "T", " ", "/", " ", "H", "T", "T", "P", "/", "2", ".", "0",
      "\r", "\n", "\r", "\n">>

\* body bytes and no Content-Length
BodyWithoutLength ==
    <<"G", "E", "T", " ", "/", " ", "H", "T", "T", "P", "/", "1", ".", "1",
      "\r", "\n", "\r", "\n", "h", "i">>

\* more body bytes than Content-Length
BodyPastLength ==
    <<"P", "O", "S", "T", " ", "/", "p", " ", "H", "T", "T", "P", "/", "1",
      ".", "1", "\r", "\n", "C", "o", "n", "t", "e", "n", "t", "-", "L", "e",
      "n", "g", "t", "h", ":", " ", "1", "\r", "\n", "\r", "\n", "a", "b",
      "c">>

\* malformed UTF-8 after the terminator and no Content-Length
GarbageAfterTerminator ==
    <<"B", "A", "D", "\r", "\n", "\r", "\n", InvalidByte>>

Messages ==
    {GarbageAfterTerminator,
     GetRoot,
     PostBody,
     PostBodyWithTerminator,
     InvalidFormat,
     InvalidUtf8Head,
     InvalidUtf8Body,
     BadContentLength,
     Http2Request,
     BodyWithoutLength,
     BodyPastLength}

\* A peer may close at any point: every prefix of every message.
Streams == UNION {{SubSeq(m, 1, k) : k \in 0 .. Len(m)} : m \in Messages}

-----------------------------------------------------------------------------
(* server.rs: fill_buffer and parse_request                                *)

\* let mut temp_buffer = [0; 512]: the most bytes one read delivers.
TempBufferSize == 512

\* usize::MAX + 1.  TLC's integers have 32 bits, so 2^30 stands for
\* 2^64: like it, it is above the length of every stream of the model.
UsizeModulus == 1073741824

Terminator == <<"\r", "\n", "\r", "\n">>
ContentLengthPrefix ==
    <<"C", "o", "n", "t", "e", "n", "t", "-", "L", "e", "n", "g", "t", "h", ":">>

\* The loop over headers_str.split("\r\n"): the first line that starts with
\* "Content-Length:" decides; what is between its first and second ':' is
\* trimmed and parsed.  No such line: the default 0.
ContentLengthOf(headers_str) ==
    LET lines == Split(headers_str, CRLF)
        found == {i \in 1 .. Len(lines) : StartsWith(lines[i], ContentLengthPrefix)}
    IN  IF found = {} THEN [ok |-> TRUE, value |-> 0]
        ELSE LET line == lines[CHOOSE i \in found : \A k \in found : i <= k]
             IN  ParseUsize(Trim(Split(line, <<":">>)[2]))

\* `a -= b` on a usize: debug builds panic on overflow, release builds wrap.
UsizeSub(a, b) ==
    IF b <= a THEN [panic |-> FALSE, value |-> a - b]
    ELSE IF build = "debug" THEN [panic |-> TRUE, value |-> a]
    ELSE [panic |-> FALSE, value |-> a - b + UsizeModulus]

\* The body bytes that came with the header block:
\* `if buffer.len() > body_start_pos { buffer.len() - body_start_pos }`.
AlreadyBufferedIgnored(buffer_len, body_start_pos) == 0
AlreadyBuffered(buffer_len, body_start_pos) ==
    IF buffer_len > body_start_pos THEN buffer_len - body_start_pos ELSE 0

\* The results of parse_request; bytes is what fill_buffer returned, when it
\* returned Ok.
Pending == [kind |-> "pending", bytes |-> << >>, request |-> NoRequest]
Failed(kind) == [kind |-> kind, bytes |-> << >>, request |-> NoRequest]

\* The ErrorKind of a zero-byte read.
ZeroReadAsInvalidData == "InvalidData"
ZeroReadKind == "UnexpectedEof"

\* The ErrorKind parse_request gives a buffer that is no UTF-8 or that
\* Request::try_from rejects.
BadRequestAsEof == "UnexpectedEof"
BadRequestKind == "InvalidData"

\* parse_request once fill_buffer returned Ok(buffer).
ParseRequest_finish(bytes) ==
    IF ~Utf8Valid(bytes)
    THEN [kind |-> BadRequestKind, bytes |-> bytes, request |-> NoRequest]
    ELSE LET r == Request_try_from(bytes)
         IN  [kind |-> CASE r.kind = "Ok" -> "Request"
                         [] r.kind = "Err" -> BadRequestKind
                         [] OTHER -> "panic_unimplemented",
              bytes |-> bytes,
              request |-> r.request]

\* What fill_buffer and parse_request do with the bytes of one read, up to
\* the next call of read or to the return.
AfterRead(buf, hc, cl, chunk) ==
    LET buffer2 == buf \o chunk
        st(h, c, r) == [buffer |-> buffer2, headers_complete |-> h,
                        content_length |-> c, result |-> r]
        \* `while content_length > 0`, else Ok(buffer)
        body(c) == IF c > 0 THEN st(TRUE, c, Pending)
                   ELSE st(TRUE, c, ParseRequest_finish(buffer2))
    IN  IF ~hc
        THEN LET p == Find(buffer2, Terminator)
             IN  IF p = 0 THEN st(FALSE, cl, Pending)
                 ELSE LET headers_end_pos == p - 1
                          headers_str == SubSeq(buffer2, 1, headers_end_pos)
                      IN  IF ~Utf8Valid(headers_str)
                          THEN st(TRUE, cl, Failed("InvalidData"))
                          ELSE LET parsed == ContentLengthOf(headers_str)
                                   body_start_pos == headers_end_pos + 4
                                   left == UsizeSub(parsed.value,
                                               AlreadyBuffered(Len(buffer2),
                                                               body_start_pos))
                               IN  IF ~parsed.ok
                                   THEN st(TRUE, cl, Failed("InvalidData"))
                                   ELSE IF left.panic
                                   THEN st(TRUE, parsed.value,
                                           Failed("panic_overflow"))
                                   ELSE body(left.value)
        ELSE LET left == UsizeSub(cl, Len(chunk))
             IN  IF left.panic THEN st(TRUE, cl, Failed("panic_overflow"))
                 ELSE body(left.value)

\* What parse_request returns when the whole stream arrives in one read (and
\* the peer then closes, should fill_buffer read again).
OneRead(data) ==
    LET first == AfterRead(<< >>, FALSE, 0, data)
    IN  IF first.result.kind = "pending" THEN Failed(ZeroReadKind)
        ELSE first.result

\* parse_request is not running.
NoStream ==
    /\ stream_data = << >>
    /\ stream_pos = 0
    /\ buffer = << >>
    /\ headers_complete = FALSE
    /\ content_length = 0
    /\ bytewise = TRUE
    /\ zero_read = FALSE
    /\ result = Pending

FrameIdle ==
    /\ build = "release"
    /\ NoStream

\* parse_request is called on a fresh stream.
FrameInit ==
    /\ build \in {"debug", "release"}
    /\ stream_data \in Streams
    /\ stream_pos = 0
    /\ buffer = << >>
    /\ headers_complete = FALSE
    /\ content_length = 0
    /\ bytewise = TRUE
    /\ zero_read = FALSE
    /\ result = Pending

Min(a, b) == IF a <= b THEN a ELSE b

\* stream.read returns Ok(n), n >= 1: the next n bytes of the stream.
Stream_read(n) ==
    /\ result.kind = "pending"
    /\ n >= 1
    /\ n <= TempBufferSize
    /\ stream_pos + n <= Len(stream_data)
    /\ LET next == AfterRead(buffer, headers_complete, content_length,
                             SubSeq(stream_data, stream_pos + 1, stream_pos + n))
       IN  /\ buffer' = next.buffer
           /\ headers_complete' = next.headers_complete
           /\ content_length' = next.content_length
           /\ result' = next.result
    /\ stream_pos' = stream_pos + n
    /\ bytewise' = (bytewise /\ n = 1)
    /\ UNCHANGED <<build, stream_data, zero_read, poolVars, serveVars,
                   parseVars, matchVars, routerVars, dispatchVars, sendVars, connVars>>

\* stream.read returns Ok(0): the peer closed and nothing is left to read.
Stream_read_zero ==
    /\ result.kind = "pending"
    /\ stream_pos = Len(stream_data)
    /\ zero_read' = TRUE
    /\ result' = Failed(ZeroReadKind)
    /\ UNCHANGED <<build, stream_data, stream_pos, buffer, headers_complete,
                   content_length, bytewise, poolVars, serveVars,
                   parseVars, matchVars, routerVars, dispatchVars, sendVars, connVars>>

\* stream.read returns Err(e), which `?` hands to the caller.
Stream_read_error ==
    /\ result.kind = "pending"
    /\ result' = Failed("IoError")
    /\ UNCHANGED <<build, stream_data, stream_pos, buffer, headers_complete,
                   content_length, bytewise, zero_read, poolVars,
                   serveVars, parseVars, matchVars, routerVars, dispatchVars, sendVars, connVars>>

FrameNext ==
    \/ \E n \in 1 .. Min(TempBufferSize, Len(stream_data) - stream_pos) :
           Stream_read(n)
    \/ Stream_read_zero
    \/ Stream_read_error

-----------------------------------------------------------------------------
(* Request::try_from on the texts of the model, and the structured         *)
(* constructor.                                                            *)

\* Longest first line, in tokens.
MaxTokens == 4
\* Longest header list.
MaxHeaders == 2

Http11 == <<"H", "T", "T", "P", "/", "1", ".", "1">>
Http10 == <<"H", "T", "T", "P", "/", "1", ".", "0">>

\* The tokens first lines are made of.
LineTokens ==
    {<<"G", "E", "T">>, <<"p", "A", "t", "C", "h">>, <<"P", "A", "S", "T">>, <<"/", "a">>, Http11, Http10, Http2}

\* The sequences over S of length at most n.
SeqsUpTo(S, n) == UNION {[1 .. k -> S] : k \in 0 .. n}

\* How a text is laid out: "bare" is the first line alone; "plain" is the
\* first line with single spaces, the header lines, the empty line and the
\* body; "padded" is "plain" with more whitespace around the tokens.
Forms == {"bare", "plain", "padded"}

\* Method names as Method::try_from spells them.
Methods == {m[2] : m \in MethodNames}
MethodToken(method) == (CHOOSE m \in MethodNames : m[2] = method)[1]

Paths == {<<"/">>, <<"/", "p", "o", "s", "t", "/", "5">>, <<"/", "a", " ", "b">>, << >>}

HeaderItem(name, sep, value) == [name |-> name, sep |-> sep, value |-> value]
ColonSpace == <<":", " ">>
HeaderItems ==
    {HeaderItem(<<"A">>, ColonSpace, <<"1">>),
     HeaderItem(<<"A">>, ColonSpace, <<"2">>),
     HeaderItem(<<"H", "o", "s", "t">>, ColonSpace, <<"a", ":", " ", "b", ":", "c">>),
     HeaderItem(<<"E">>, ColonSpace, << >>),
     HeaderItem(<<"X", ":", " ", "Y">>, ColonSpace, <<"1">>),
     HeaderItem(<<"A">>, ColonSpace, <<"1", "\r", "\n", "B", ":", " ", "2">>),
     HeaderItem(<<"A">>, <<":">>, <<"1">>),
     HeaderItem(<<"N", "o", "S", "e", "p", "a", "r", "a", "t", "o", "r">>, << >>, << >>)}

Bodies ==
    {NoBody, Some(<< >>), Some(<<"h", "i">>), Some(<<"a", "\r", "\n", "b">>), Some(<<"\r", "\n", "\r", "\n", "z">>)}

HeaderLine(item) == item.name \o item.sep \o item.value

RECURSIVE HeaderBlock(_)
HeaderBlock(items) ==
    IF items = << >> THEN << >>
    ELSE HeaderLine(Head(items)) \o CRLF \o HeaderBlock(Tail(items))

\* The tokens of a first line with gap between them.
RECURSIVE Spaced(_, _)
Spaced(tokens, gap) ==
    IF tokens = << >> THEN << >>
    ELSE IF Len(tokens) = 1 THEN tokens[1]
    ELSE tokens[1] \o gap \o Spaced(Tail(tokens), gap)

\* The text Request::try_from is given.
RequestText(line, form, items, body) ==
    CASE form = "bare" -> Spaced(line, <<" ">>)
      [] form = "plain" ->
             Spaced(line, <<" ">>) \o CRLF \o HeaderBlock(items) \o CRLF
                 \o body.text
      [] OTHER ->
             <<" ">> \o Spaced(line, <<" ", "\t">>) \o <<" ">> \o CRLF
                 \o HeaderBlock(items) \o CRLF \o body.text

NotParsed == [kind |-> "none", request |-> NoRequest]
NotBuilt == [made |-> FALSE, request |-> NoRequest]

ParseIdle ==
    /\ in_line = << >>
    /\ in_form = "bare"
    /\ in_headers = << >>
    /\ in_body = NoBody
    /\ try_result = NotParsed
    /\ built = NotBuilt

\* A text: any first line without headers and body, or a first line of the
\* textual form with any header list and body.
ParseInit ==
    /\ \/ /\ in_line \in SeqsUpTo(LineTokens, MaxTokens)
          /\ in_form \in Forms
          /\ in_headers = << >>
          /\ in_body = NoBody
       \/ /\ in_line \in {<<MethodToken(m), p, Http11>> :
                              m \in Methods, p \in Paths}
          /\ in_form = "plain"
          /\ in_headers \in SeqsUpTo(HeaderItems, MaxHeaders)
          /\ in_body \in Bodies
    /\ try_result = NotParsed
    /\ built = NotBuilt

\* Request::try_from(text)
Request_parse ==
    /\ try_result.kind = "none"
    /\ try_result' = Request_try_from(
                     RequestText(in_line, in_form, in_headers, in_body))
    /\ UNCHANGED <<in_line, in_form, in_headers, in_body, built, poolVars,
                   frameVars, serveVars, matchVars, routerVars, dispatchVars, sendVars, connVars>>

\* Request::set_body after Request::with_headers
Request_set_body(request, body) == [request EXCEPT !.body = body]

\* The first line and the header items are those of a textual form
\* "METHOD SP PATH SP HTTP/1.1", "name: value".
IsTextualForm ==
    /\ in_form = "plain"
    /\ Len(in_line) = 3
    /\ \E m \in Methods : MethodToken(m) = in_line[1]
    /\ in_line[3] = Http11
    /\ \A i \in 1 .. Len(in_headers) : in_headers[i].sep = ColonSpace

\* The structured constructor on the method, path, headers and body the
\* text was written from.
Request_build ==
    /\ ~built.made
    /\ IsTextualForm
    /\ built' =
           [made |-> TRUE,
            request |->
                LET request ==
                        Request_with_headers(
                            CHOOSE m \in Methods : MethodToken(m) = in_line[1],
                            in_line[2],
                            [i \in 1 .. Len(in_headers) |->
                                <<in_headers[i].name, in_headers[i].value>>])
                IN  IF in_body.some
                    THEN Request_set_body(request, in_body)
                    ELSE request]
    /\ UNCHANGED <<in_line, in_form, in_headers, in_body, try_result, poolVars,
                   frameVars, serveVars, matchVars, routerVars, dispatchVars, sendVars, connVars>>

ParseNext == Request_parse \/ Request_build

-----------------------------------------------------------------------------
(* router.rs: match_route                                                  *)

\* Most segments of a pattern or a path.
MaxSegments == 2

\* str::trim_start_matches('/')
RECURSIVE TrimStartSlashes(_)
TrimStartSlashes(s) ==
    IF s # << >> /\ Head(s) = "/" THEN TrimStartSlashes(Tail(s)) ELSE s

\* The closure extract_segments
ExtractSegments(path) == Split(TrimStartSlashes(path), <<"/">>)

\* route_segment.starts_with(':')
IsWildcard(segment) == StartsWith(segment, <<":">>)

\* A loop over the zipped segments that pushes every path segment.
EverySegment(route_segments, path_segments) == path_segments

\* params after the loop over the zipped segments: the path segments at the
\* wildcards, in order.
RECURSIVE CollectParams(_, _)
CollectParams(route_segments, path_segments) ==
    IF route_segments = << >> \/ path_segments = << >> THEN << >>
    ELSE (IF IsWildcard(Head(route_segments))
          THEN <<Head(path_segments)>> ELSE << >>)
         \o CollectParams(Tail(route_segments), Tail(path_segments))

\* `route_segments.len() != path_segments.len()`
LengthsDifferNever(route_segments, path_segments) == FALSE
LengthsDiffer(route_segments, path_segments) ==
    Len(route_segments) # Len(path_segments)

NoMatch == [kind |-> "None", params |-> << >>]
Matched(params) == [kind |-> "Some", params |-> params]

\* fn match_route(route_pattern, path) -> Option<PathParams>
match_route(pattern, path) ==
    LET route_segments == ExtractSegments(pattern)
        path_segments == ExtractSegments(path)
    IN  IF LengthsDiffer(route_segments, path_segments) THEN NoMatch
        ELSE IF \E i \in 1 .. Len(route_segments) :
                    /\ i <= Len(path_segments)
                    /\ ~IsWildcard(route_segments[i])
                    /\ route_segments[i] # path_segments[i]
        THEN NoMatch
        ELSE Matched(CollectParams(route_segments, path_segments))

\* The segments patterns and paths are made of.
SegmentTexts == {<<"h", "e", "l", "l", "o">>, <<"5">>, <<":", "i", "d">>, <<":", "x">>, << >>}

\* Segment lists as extract_segments gives them: at least one segment, and
\* an empty first segment only when it is the only one.
SegmentLists ==
    {segs \in SeqsUpTo(SegmentTexts, MaxSegments) :
        /\ Len(segs) >= 1
        /\ Len(segs) > 1 => segs[1] # << >>}

LeadingSlashes == 0 .. 2

\* A pattern or a path: so many '/' and then the segments, '/' between them.
RouteTexts == [lead : LeadingSlashes, segs : SegmentLists]

RECURSIVE Slashes(_)
Slashes(n) == IF n = 0 THEN << >> ELSE <<"/">> \o Slashes(n - 1)

RECURSIVE Slashed(_)
Slashed(segs) ==
    IF Len(segs) = 1 THEN segs[1]
    ELSE segs[1] \o <<"/">> \o Slashed(Tail(segs))

TextOf(route_text) == Slashes(route_text.lead) \o Slashed(route_text.segs)

NoRouteText == [lead |-> 0, segs |-> <<<< >>>>]
NotMatched == [kind |-> "none", params |-> << >>]

MatchIdle ==
    /\ route_pattern = NoRouteText
    /\ route_path = NoRouteText
    /\ match_result = NotMatched

MatchInit ==
    /\ route_pattern \in RouteTexts
    /\ route_path \in RouteTexts
    /\ match_result = NotMatched

\* match_route(route_pattern, path)
Match_route ==
    /\ match_result.kind = "none"
    /\ match_result' = match_route(TextOf(route_pattern), TextOf(route_path))
    /\ UNCHANGED <<route_pattern, route_path, poolVars, frameVars, serveVars,
                   parseVars, routerVars, dispatchVars, sendVars, connVars>>

MatchNext == Match_route

-----------------------------------------------------------------------------
(* http/response.rs                                                        *)

\* Response::new
Response_new(status_code, headers, body) ==
    [status_code |-> status_code, headers |-> headers, body |-> body]

\* An unsigned integer as fmt::Display prints it.
RECURSIVE UsizeToString(_)
UsizeToString(n) ==
    IF n < 10 THEN <<Digits[n + 1]>>
    ELSE UsizeToString(n \div 10) \o <<Digits[(n % 10) + 1]>>

\* PROTOCOL of http/request.rs
PROTOCOL == <<"H", "T", "T", "P", "/", "1", ".", "1">>

\* The arms of status_code_to_string; any other code is unimplemented!.
ReasonPhrases ==
    {<<200, <<"O", "K">>>>, <<400, <<"B", "A", "D", " ", "R", "E", "Q", "U", "E", "S", "T">>>>, <<404, <<"N", "O", "T", " ", "F", "O", "U", "N", "D">>>>}

Supported(code) == \E r \in ReasonPhrases : r[1] = code

\* status_code_to_string, for a supported code
status_code_to_string(code) ==
    (CHOOSE r \in ReasonPhrases : r[1] = code)[2]

\* A fold over the headers that puts the line break before each header.
RECURSIVE HeadersBreakFirst(_)
HeadersBreakFirst(headers) ==
    IF headers = << >> THEN << >>
    ELSE CRLF \o Head(headers)[1] \o <<":", " ">> \o Head(headers)[2]
         \o HeadersBreakFirst(Tail(headers))

\* The fold of Response::stream over the headers: "{}: {}\r\n" for each.
RECURSIVE FoldHeaders(_)
FoldHeaders(headers) ==
    IF headers = << >> THEN << >>
    ELSE Head(headers)[1] \o <<":", " ">> \o Head(headers)[2] \o CRLF
         \o FoldHeaders(Tail(headers))

StreamOk(text) == [kind |-> "Ok", text |-> text]
StreamPanic == [kind |-> "panic", text |-> << >>]

\* Response::stream, and Response::as_bytes, which gives its bytes
Response_stream(response) ==
    IF ~Supported(response.status_code) THEN StreamPanic
    ELSE StreamOk(PROTOCOL \o <<" ">>
                  \o UsizeToString(response.status_code) \o <<" ">>
                  \o status_code_to_string(response.status_code) \o CRLF
                  \o FoldHeaders(response.headers) \o CRLF
                  \o response.body)

-----------------------------------------------------------------------------
(* router.rs: Router, with path_router.rs, handler.rs, into_response.rs    *)

\* Most calls of Router::route when a router is built.
MaxRoutes == 3

\* vec![("Content-Type".to_string(), "text/plain".to_string())]
ContentTypeTextPlain == <<<<<<"C", "o", "n", "t", "e", "n", "t", "-", "T", "y", "p", "e">>, <<"t", "e", "x", "t", "/", "p", "l", "a", "i", "n">>>>>>

\* A conversion of a String that sets no header.
String_without_headers(body) == Response_new(200, << >>, body)

\* impl IntoResponse for String
String_into_response(body) == Response_new(200, ContentTypeTextPlain, body)

\* An (u16, &str) turned into a Response of status 200 whatever its code.
Status_always_ok(code, body) == Response_new(200, ContentTypeTextPlain, body)

\* impl IntoResponse for (u16, &str)
Status_into_response(code, body) ==
    Response_new(code, ContentTypeTextPlain, body)

\* (404, "Not Found").into_response()
NotFound == Status_into_response(404, <<"N", "o", "t", " ", "F", "o", "u", "n", "d">>)

\* The handlers of the model are functions of no argument that return a
\* String.  Every registration boxes handlers of its own: the handler the
\* n-th call of Router::route brings for a method returns n and the method.
BoxedHandler(n, method) == [route |-> n, method |-> method]
NoHandler == [route |-> 0, method |-> "None"]

\* Handler<((),)>::call_handler: the request is not looked at.
call_handler(handler, request) ==
    String_into_response(<<Digits[handler.route + 1]>>
                         \o MethodToken(handler.method))

\* The methods handlers are registered for and requests are made with.
RouterMethods == {"Get", "Post"}

\* The tables PathRouter::new() and the chains of get(..) and post(..) make
\* for the n-th call of Router::route: one handler for each of some methods.
PathRouters(n) ==
    {[method \in ms |-> BoxedHandler(n, method)] :
        ms \in SUBSET RouterMethods}

\* A lookup that takes any handler of the table, whatever the method.
FindAnyMethod(path_router, method) ==
    IF DOMAIN path_router = {} THEN NoHandler
    ELSE path_router[CHOOSE m \in DOMAIN path_router : TRUE]

\* PathRouter::find
PathRouter_find(path_router, method) ==
    IF method \in DOMAIN path_router THEN path_router[method] ELSE NoHandler

\* The patterns routers are built from: both match the path /hello.
RouterPatterns == {<<"/", "h", "e", "l", "l", "o">>, <<"/", ":", "x">>}

\* The paths of the requests: the last one matches none of the patterns.
RouterPaths == {<<"/", "h", "e", "l", "l", "o">>, <<"/", "b", "y", "e">>, <<"/", "h", "e", "l", "l", "o", "/", "5">>}

\* HashMap::default()
EmptyMap == [pattern \in {} |-> << >>]

\* HashMap::insert on Router.routes
Insert(map, pattern, path_router) ==
    [p \in DOMAIN map \cup {pattern} |->
        IF p = pattern THEN path_router ELSE map[p]]

\* The orders in which HashMap::iter can visit the keys.
IterOrders(map) ==
    {order \in [1 .. Cardinality(DOMAIN map) -> DOMAIN map] :
        \A p \in DOMAIN map : \E i \in DOMAIN order : order[i] = p}

\* A find_map whose closure keeps the parameters of the first pattern that
\* matched.
RECURSIVE FindMapFirstParams(_, _, _, _)
FindMapFirstParams(order, map, request, found) ==
    IF order = << >> THEN [handler |-> NoHandler, found |-> found]
    ELSE LET pattern == Head(order)
             matched == match_route(pattern, request.path)
             handler == PathRouter_find(map[pattern], request.method)
             kept == IF found.kind = "Some" THEN found ELSE matched
         IN  IF matched.kind = "Some"
             THEN IF handler # NoHandler
                  THEN [handler |-> handler, found |-> kept]
                  ELSE FindMapFirstParams(Tail(order), map, request, kept)
             ELSE FindMapFirstParams(Tail(order), map, request, found)

\* The find_map of Router::call over the patterns in the order of the
\* iteration: it stops at the first pattern that matches the path and has a
\* handler for the method; found is found_path_params.
RECURSIVE FindMap(_, _, _, _)
FindMap(order, map, request, found) ==
    IF order = << >> THEN [handler |-> NoHandler, found |-> found]
    ELSE LET pattern == Head(order)
             matched == match_route(pattern, request.path)
             handler == PathRouter_find(map[pattern], request.method)
         IN  IF matched.kind = "Some"
             THEN IF handler # NoHandler
                  THEN [handler |-> handler, found |-> matched]
                  ELSE FindMap(Tail(order), map, request, matched)
             ELSE FindMap(Tail(order), map, request, found)

NoCall == [done |-> FALSE]

\* Router::new
Router_new ==
    /\ routes = EmptyMap
    /\ registered = << >>
    /\ call = NoCall

\* Router::route(path, handler), while the router is built
Router_route(pattern, path_router) ==
    /\ call = NoCall
    /\ Len(registered) < MaxRoutes
    /\ routes' = Insert(routes, pattern, path_router)
    /\ registered' = Append(registered, <<pattern, path_router>>)
    /\ UNCHANGED <<call, poolVars, frameVars, serveVars, parseVars,
                   matchVars, dispatchVars, sendVars, connVars>>

\* Router::call(request), the iteration visiting the patterns in order; one
\* request is routed in a behaviour.
Router_call(method, path, order) ==
    LET request == Request_with_headers(method, path, << >>)
        find == FindMap(order, routes, request, NoMatch)
        passed == IF find.found.kind = "Some"
                  THEN [request EXCEPT !.path_params = find.found.params]
                  ELSE request
    IN  /\ call = NoCall
        /\ call' = [done |-> TRUE,
                    request |-> request,
                    handler |-> find.handler,
                    passed |-> passed,
                    response |-> IF find.handler # NoHandler
                                 THEN call_handler(find.handler, passed)
                                 ELSE NotFound]
        /\ UNCHANGED <<routes, registered, poolVars, frameVars, serveVars,
                       parseVars, matchVars, dispatchVars, sendVars, connVars>>

RouterNext ==
    \/ \E pattern \in RouterPatterns,
          path_router \in PathRouters(Len(registered) + 1) :
           Router_route(pattern, path_router)
    \/ \E method \in RouterMethods, path \in RouterPaths,
          order \in IterOrders(routes) :
           Router_call(method, path, order)

-----------------------------------------------------------------------------
(* handler.rs and extract.rs: call_handler of a handler with arguments     *)

\* Most arguments of a handler of the model (the macro is applied up to six).
MaxArgs == 3

\* impl IntoResponse for ExtractError
ExtractError_into_response ==
    Response_new(400, ContentTypeTextPlain, <<"B", "a", "d", " ", "r", "e", "q", "u", "e", "s", "t">>)

ExtractOk(value) == [ok |-> TRUE, value |-> value]
ExtractErr == [ok |-> FALSE, value |-> << >>]

\* A Path<usize> extractor that takes the last path parameter.
Path_from_last_param(parts) ==
    IF parts.path_params = << >> THEN ExtractErr
    ELSE LET param == ParseUsize(parts.path_params[Len(parts.path_params)])
         IN  IF param.ok THEN ExtractOk(param.value) ELSE ExtractErr

\* impl FromRequestParts for Path<usize>
Path_from_request_parts(parts) ==
    IF parts.path_params = << >> THEN ExtractErr
    ELSE LET param == ParseUsize(parts.path_params[1])
         IN  IF param.ok THEN ExtractOk(param.value) ELSE ExtractErr

\* impl FromRequest for Path<usize>
Path_from_request(req) == Path_from_request_parts(req)

\* A String extractor that gives the empty text for a request without body.
String_or_empty(req) == ExtractOk(req.body.text)

\* impl FromRequest for String
String_from_request(req) ==
    IF req.body.some THEN ExtractOk(req.body.text) ELSE ExtractErr

\* The argument lists of the handlers: Path<usize> is the one type that
\* implements FromRequestParts, and the last argument is a Path<usize> or a
\* String.
RECURSIVE Paths_n(_)
Paths_n(n) == IF n = 0 THEN << >> ELSE <<"Path">> \o Paths_n(n - 1)

HandlerArgs ==
    {<< >>} \cup {Paths_n(n) \o <<last>> :
                     n \in 0 .. MaxArgs - 1, last \in {"Path", "String"}}

\* What the handler functions of the model return.  Without arguments:
\* hello_world of tests/integration.rs.  With arguments: "ID: {}" for a
\* Path(id) and "Body: {}" for a String, ", " between them, as
\* post_handler of tests/integration.rs and handler of test_handler_with_args.
RECURSIVE FormatArgs(_, _)
FormatArgs(args, values) ==
    IF args = << >> THEN << >>
    ELSE (IF Head(args) = "Path"
          THEN <<"I", "D", ":", " ">> \o UsizeToString(Head(values))
          ELSE <<"B", "o", "d", "y", ":", " ">> \o Head(values))
         \o (IF Len(args) > 1 THEN <<",", " ">> ELSE << >>)
         \o FormatArgs(Tail(args), Tail(values))

HandlerFunction(args, values) ==
    IF args = << >> THEN <<"H", "e", "l", "l", "o", ",", " ", "W", "o", "r", "l", "d", "!">> ELSE FormatArgs(args, values)

\* The path parameters of the requests: none, numbers, texts that are not a
\* usize, and two parameters.
ParamLists ==
    {<< >>, <<<<"5">>>>, <<<<"4", "4">>>>, <<<<"+", "5">>>>, <<<<"0", "0", "7">>>>, <<<<"a", "b", "c">>>>,
     <<<<"-", "5">>>>, <<<< >>>>, <<<<"9", "9", "9", "9", "9", "9", "9", "9", "9", "9", "9", "9", "9", "9", "9", "9", "9", "9", "9", "9">>>>, <<<<"5">>, <<"a", "b", "c">>>>, <<<<"a", "b", "c">>, <<"5">>>>,
     <<<<"5">>, <<"4", "4">>>>}

\* The requests call_handler is given: POST /post/5 with those path
\* parameters, with or without a header, and without or with a body.
DispatchRequests ==
    {[[Request_with_headers("Post", <<"/", "p", "o", "s", "t", "/", "5">>, headers)
          EXCEPT !.path_params = params] EXCEPT !.body = body] :
        headers \in {<< >>, <<<<<<"H", "o", "s", "t">>, <<"l", "o", "c", "a", "l", "h", "o", "s", "t">>>>>>},
        params \in ParamLists,
        body \in {NoBody, Some(<<"H", "e", "l", "l", "o", " ", "R", "u", "s", "t">>), Some(<<" ", "a", "\r", "\n", "\r", "\n", "b", " ">>)}}

NoResponse == [status_code |-> 0, headers |-> << >>, body |-> << >>]

DispatchIdle ==
    /\ handler_args = << >>
    /\ dispatch_request = NoRequest
    /\ extracted = << >>
    /\ invoked = 0
    /\ handler_response = NoResponse

DispatchInit ==
    /\ handler_args \in HandlerArgs
    /\ dispatch_request \in DispatchRequests
    /\ extracted = << >>
    /\ invoked = 0
    /\ handler_response = NoResponse

\* No extraction so far went to `Err(e) => return e.into_response()`.
ProceedsAlways(extractions) == TRUE
Proceeds(extractions) ==
    \A i \in 1 .. Len(extractions) : extractions[i].ok

\* The next leading argument: $ty::from_request_parts(&parts)
Dispatch_from_request_parts ==
    LET value == Path_from_request_parts(dispatch_request)
    IN  /\ dispatch_request # NoRequest
        /\ invoked = 0
        /\ Proceeds(extracted)
        /\ Len(extracted) + 1 < Len(handler_args)
        /\ extracted' = Append(extracted, value)
        /\ handler_response' = IF value.ok THEN handler_response
                               ELSE ExtractError_into_response
        /\ UNCHANGED <<handler_args, dispatch_request, invoked, poolVars,
                       frameVars, serveVars, parseVars, matchVars,
                       routerVars, sendVars, connVars>>

\* The last argument: $last::from_request(req)
Dispatch_from_request ==
    LET value == IF handler_args[Len(handler_args)] = "Path"
                 THEN Path_from_request(dispatch_request)
                 ELSE String_from_request(dispatch_request)
    IN  /\ dispatch_request # NoRequest
        /\ invoked = 0
        /\ Proceeds(extracted)
        /\ Len(extracted) + 1 = Len(handler_args)
        /\ extracted' = Append(extracted, value)
        /\ handler_response' = IF value.ok THEN handler_response
                               ELSE ExtractError_into_response
        /\ UNCHANGED <<handler_args, dispatch_request, invoked, poolVars,
                       frameVars, serveVars, parseVars, matchVars,
                       routerVars, sendVars, connVars>>

\* The call of the handler function on the values the `Ok(value) => value`
\* arms bound, and into_response on what it returns
Dispatch_invoke ==
    /\ dispatch_request # NoRequest
    /\ invoked = 0
    /\ \A i \in 1 .. Len(extracted) : extracted[i].ok
    /\ Len(extracted) = Len(handler_args)
    /\ invoked' = invoked + 1
    /\ handler_response' =
           String_into_response(
               HandlerFunction(handler_args,
                               [i \in 1 .. Len(extracted) |->
                                   extracted[i].value]))
    /\ UNCHANGED <<handler_args, dispatch_request, extracted, poolVars,
                   frameVars, serveVars, parseVars, matchVars, routerVars, sendVars, connVars>>

DispatchNext ==
    \/ Dispatch_from_request_parts
    \/ Dispatch_from_request
    \/ Dispatch_invoke

-----------------------------------------------------------------------------
(* server.rs: send_response                                                *)

\* The responses send_response is given: those the framework makes, and
\* responses a handler's IntoResponse can make with other status codes,
\* header lists and bodies.
SentResponses ==
    {String_into_response(<<"H", "e", "l", "l", "o", ",", " ", "W", "o", "r", "l", "d", "!">>), NotFound, ExtractError_into_response}
    \cup {Response_new(code, headers, body) :
             code \in {200, 204, 500},
             headers \in {<< >>, <<<<<<"A">>, <<"1">>>>, <<<<"B">>, <<"2">>>>>>,
                          <<<<<<"B">>, <<"2">>>>, <<<<"A">>, <<"1">>>>>>},
             body \in {<< >>, <<"h", "i">>}}

SendNone == [kind |-> "none", n |-> 0]
SendOk(n) == [kind |-> "Ok", n |-> n]
SendErr == [kind |-> "Err", n |-> 0]
SendPanic == [kind |-> "panic", n |-> 0]

SendIdle ==
    /\ sending = NoResponse
    /\ send_pc = "idle"
    /\ wire = << >>
    /\ send_result = SendNone

\* send_response(stream, response) is called
Send_response(response) ==
    /\ send_pc = "idle"
    /\ send_result = SendNone
    /\ sending' = response
    /\ send_pc' = "write"
    /\ UNCHANGED <<wire, send_result>>

\* How many bytes one call of Write::write may accept.
Accepts(bytes) == 0 .. Len(bytes)

\* `stream.write(&response.as_bytes())?`: as_bytes panics on a status code
\* without reason phrase; write accepts some of the bytes, or fails.
Send_write ==
    LET bytes == Response_stream(sending)
    IN  /\ send_pc = "write"
        /\ \/ /\ bytes.kind = "panic"
              /\ send_pc' = "done"
              /\ send_result' = SendPanic
              /\ UNCHANGED wire
           \/ /\ bytes.kind = "Ok"
              /\ \E n \in Accepts(bytes.text) :
                     /\ wire' = wire \o SubSeq(bytes.text, 1, n)
                     /\ send_result' = SendOk(n)
              /\ send_pc' = "flush"
           \/ /\ bytes.kind = "Ok"
              /\ send_pc' = "done"
              /\ send_result' = SendErr
              /\ UNCHANGED wire
        /\ UNCHANGED sending

\* `stream.flush()?` and `Ok(num_bytes_written)`
Send_flush ==
    /\ send_pc = "flush"
    /\ send_pc' = "done"
    /\ send_result' \in {send_result, SendErr}
    /\ UNCHANGED <<sending, wire>>

SendRest == <<poolVars, frameVars, serveVars, parseVars, matchVars,
              routerVars, dispatchVars, connVars>>

SendNext ==
    \/ \E response \in SentResponses :
           Send_response(response) /\ UNCHANGED SendRest
    \/ Send_write /\ UNCHANGED SendRest
    \/ Send_flush /\ UNCHANGED SendRest

-----------------------------------------------------------------------------
(* server.rs: the closure of serve on one connection                       *)

\* Scenario 2: POST /post/5 with the body "Hello Rust", and the same
\* request without body.
PostFive == <<"P", "O", "S", "T", " ", "/", "p", "o", "s", "t", "/", "5", " ", "H", "T", "T", "P", "/", "1", ".", "1", "\r", "\n", "C", "o", "n", "t", "e", "n", "t", "-", "L", "e", "n", "g", "t", "h", ":", " ", "1", "0", "\r", "\n", "\r", "\n", "H", "e", "l", "l", "o", " ", "R", "u", "s", "t">>

PostFiveNoBody == <<"P", "O", "S", "T", " ", "/", "p", "o", "s", "t", "/", "5", " ", "H", "T", "T", "P", "/", "1", ".", "1", "\r", "\n", "\r", "\n">>

\* What the peer of the connection sends before it closes its side.
ConnStreams ==
    {GetRoot, PostFive, PostFiveNoBody, PostBody, InvalidFormat,
     InvalidUtf8Head, Http2Request, BodyPastLength, SubSeq(GetRoot, 1, 5),
     << >>}

\* A handler with arguments in a table of a Router.
HandlerWith(n, method, args) ==
    [route |-> n, method |-> method, args |-> args]

\* The router of tests/integration.rs: GET / to hello_world and
\* POST /post/:id to post_handler.
AppRouter ==
    Insert(Insert(EmptyMap, <<"/">>,
                  [m \in {"Get"} |-> HandlerWith(1, m, << >>)]),
           <<"/", "p", "o", "s", "t", "/", ":", "i", "d">>,
           [m \in {"Post"} |-> HandlerWith(2, m, <<"Path", "String">>)])

\* A router whose handler of a Path<usize> is registered for routes
\* without wildcard, one of them matched by the same paths as a wildcard
\* route.
NoWildcardRouter ==
    Insert(Insert(Insert(EmptyMap, <<"/">>,
                         [m \in {"Get", "Post"} |->
                             HandlerWith(1, m, <<"Path">>)]),
                  <<"/", "p", "o", "s", "t", "/", ":", "i", "d">>,
                  [m \in {"Get"} |-> HandlerWith(2, m, <<"Path">>)]),
           <<"/", "p", "o", "s", "t", "/", "5">>,
           [m \in {"Post"} |-> HandlerWith(3, m, <<"Path", "Path">>)])

ConnRouters == {EmptyMap, AppRouter, NoWildcardRouter}

ConnStates ==
    <<"Accepted", "Framing", "Parsed", "Routed", "Written", "Closed">>

ConnIdle ==
    /\ conn_data = << >>
    /\ conn_router = EmptyMap
    /\ conn_pc = "none"
    /\ conn_trail = << >>
    /\ conn_parsed = Pending
    /\ conn_response = NoResponse
    /\ router_calls = 0
    /\ conn_log = << >>

\* The listener gave the connection and pool.execute took its closure.
ConnInit ==
    /\ conn_data \in ConnStreams
    /\ conn_router \in ConnRouters
    /\ conn_pc = "queued"
    /\ conn_trail = <<"Accepted">>
    /\ conn_parsed = Pending
    /\ conn_response = NoResponse
    /\ router_calls = 0
    /\ conn_log = << >>

ConnRest == <<poolVars, frameVars, serveVars, parseVars, matchVars,
              routerVars>>

\* A worker calls the closure.
Conn_start ==
    /\ conn_pc = "queued"
    /\ conn_pc' = "parse"
    /\ conn_trail' = Append(conn_trail, "Framing")
    /\ UNCHANGED <<conn_data, conn_router, conn_parsed, conn_response,
                   router_calls, conn_log>>
    /\ UNCHANGED <<ConnRest, dispatchVars, sendVars>>

\* The closure is dropped uncalled, and the stream with it: the last worker
\* thread ended and the receiver went with it.
Conn_job_dropped ==
    /\ conn_pc = "queued"
    /\ conn_pc' = "end"
    /\ conn_trail' = Append(conn_trail, "Closed")
    /\ UNCHANGED <<conn_data, conn_router, conn_parsed, conn_response,
                   router_calls, conn_log>>
    /\ UNCHANGED <<ConnRest, dispatchVars, sendVars>>

\* `Ok(request) => request`; the other arms return.
GoesOn(kind) == kind = "Request"

\* A closure without the arm for UnexpectedEof: every Err is printed to
\* stderr.
LogsEveryErr(kind) ==
    CASE kind = "Request" -> << >>
      [] kind \in {"UnexpectedEof", "InvalidData", "IoError"} ->
             <<"stderr: An error occurred">>
      [] OTHER -> <<"stderr: thread panicked">>

\* What the arms of the match on parse_request print, and what the panic
\* hook prints when parse_request panics.
ParseLog(kind) ==
    CASE kind = "Request" -> << >>
      [] kind = "UnexpectedEof" -> <<"stdout: Client closed connection.">>
      [] kind \in {"InvalidData", "IoError"} ->
             <<"stderr: An error occurred">>
      [] OTHER -> <<"stderr: thread panicked">>

\* `match parse_request(&mut stream)` with what parse_request returned: on
\* Ok the closure goes on, the other arms print and return, and a panic
\* unwinds through the closure.
Conn_match(r) ==
    /\ conn_pc = "parse"
    /\ conn_parsed' = r
    /\ conn_log' = conn_log \o ParseLog(r.kind)
    /\ IF GoesOn(r.kind)
       THEN /\ conn_pc' = "call"
            /\ conn_trail' = Append(conn_trail, "Parsed")
       ELSE /\ conn_pc' = "end"
            /\ conn_trail' = Append(conn_trail, "Closed")
    /\ UNCHANGED <<conn_data, conn_router, conn_response, router_calls>>
    /\ UNCHANGED <<ConnRest, dispatchVars, sendVars>>

\* A read of the stream fails.
Conn_read_error == Conn_match(Failed("IoError"))

\* The stream gives the peer's bytes and then its close.
Conn_parse_request == Conn_match(OneRead(conn_data))

\* `router.call(request)` up to the call of the handler, the iteration
\* visiting the patterns in order; without handler it returns the 404
\* response.
Conn_route(order) ==
    LET request == conn_parsed.request
        find == FindMap(order, conn_router, request, NoMatch)
        passed == IF find.found.kind = "Some"
                  THEN [request EXCEPT !.path_params = find.found.params]
                  ELSE request
    IN  /\ conn_pc = "call"
        /\ router_calls' = router_calls + 1
        /\ IF find.handler # NoHandler
           THEN /\ handler_args' = find.handler.args
                /\ dispatch_request' = passed
                /\ conn_pc' = "dispatch"
                /\ UNCHANGED <<conn_response, conn_trail>>
           ELSE /\ conn_response' = NotFound
                /\ conn_pc' = "send"
                /\ conn_trail' = Append(conn_trail, "Routed")
                /\ UNCHANGED <<handler_args, dispatch_request>>
        /\ UNCHANGED <<conn_data, conn_router, conn_parsed, conn_log,
                       extracted, invoked, handler_response>>
        /\ UNCHANGED <<ConnRest, sendVars>>

\* `handler.call_handler(request)` returned: its Response is what
\* router.call returns.
Conn_routed ==
    /\ conn_pc = "dispatch"
    /\ handler_response # NoResponse
    /\ conn_response' = handler_response
    /\ conn_pc' = "send"
    /\ conn_trail' = Append(conn_trail, "Routed")
    /\ UNCHANGED <<conn_data, conn_router, conn_parsed, router_calls,
                   conn_log>>
    /\ UNCHANGED <<ConnRest, dispatchVars, sendVars>>

\* `send_response(&mut stream, response)` is called.
Conn_send ==
    /\ conn_pc = "send"
    /\ Send_response(conn_response)
    /\ UNCHANGED connVars
    /\ UNCHANGED <<ConnRest, dispatchVars>>

\* A closure that goes back to router.call when send_response failed.
RetriesOnErr(kind) ==
    CASE kind = "Ok" -> "return"
      [] kind = "Err" -> "call"
      [] OTHER -> "end"

\* A closure that reads the next request of the connection after it sent a
\* response.
KeepsAlive(kind) ==
    CASE kind = "Ok" -> "parse"
      [] kind = "Err" -> "return"
      [] OTHER -> "end"

\* Both arms of the match on send_response fall to the end of the closure;
\* a panic in as_bytes unwinds through it.
AfterSend(kind) == IF kind \in {"Ok", "Err"} THEN "return" ELSE "end"

\* A closure that drops the Err of send_response without printing it.
SendLogQuiet(kind) ==
    CASE kind = "Ok" -> "stdout: Sent bytes."
      [] kind = "Err" -> "stdout: "
      [] OTHER -> "stderr: thread panicked"

\* What the arms of the match on send_response print, and what the panic
\* hook prints when as_bytes panics.
SendLog(kind) ==
    CASE kind = "Ok" -> "stdout: Sent bytes."
      [] kind = "Err" -> "stderr: An error occurred"
      [] OTHER -> "stderr: thread panicked"

\* The arms of the match on send_response print its result.
Conn_sent ==
    /\ conn_pc = "send"
    /\ send_pc = "done"
    /\ conn_pc' = AfterSend(send_result.kind)
    /\ conn_log' = Append(conn_log, SendLog(send_result.kind))
    /\ CASE send_result.kind = "Ok" ->
                conn_trail' = Append(conn_trail, "Written")
         [] send_result.kind = "Err" ->
                UNCHANGED conn_trail
         [] OTHER ->
                conn_trail' = Append(conn_trail, "Closed")
    /\ UNCHANGED <<conn_data, conn_router, conn_parsed, conn_response,
                   router_calls>>
    /\ UNCHANGED <<ConnRest, dispatchVars, sendVars>>

\* The closure returns and the stream it owns is dropped.
Conn_return ==
    /\ conn_pc = "return"
    /\ conn_pc' = "end"
    /\ conn_trail' = Append(conn_trail, "Closed")
    /\ UNCHANGED <<conn_data, conn_router, conn_parsed, conn_response,
                   router_calls, conn_log>>
    /\ UNCHANGED <<ConnRest, dispatchVars, sendVars>>

ConnNext ==
    \/ Conn_start
    \/ Conn_job_dropped
    \/ Conn_read_error
    \/ Conn_parse_request
    \/ \E order \in IterOrders(conn_router) : Conn_route(order)
    \/ Dispatch_from_request_parts
    \/ Dispatch_from_request
    \/ Dispatch_invoke
    \/ Conn_routed
    \/ Conn_send
    \/ Send_write /\ UNCHANGED SendRest
    \/ Send_flush /\ UNCHANGED SendRest
    \/ Conn_sent
    \/ Conn_return

-----------------------------------------------------------------------------
(* server.rs: the accept loop of serve and one connection                  *)

\* Two requests sent one after the other on one connection.
TwoRequests == GetRoot \o GetRoot

AcceptStreams == ConnStreams \cup {TwoRequests}

\* serve was called with a router; no connection yet.
AcceptInit ==
    /\ conn_data = << >>
    /\ conn_router \in ConnRouters
    /\ conn_pc = "none"
    /\ conn_trail = << >>
    /\ conn_parsed = Pending
    /\ conn_response = NoResponse
    /\ router_calls = 0
    /\ conn_log = << >>

\* `Ok(mut stream) => { ... pool.execute(move || { ... }) }`: the accepted
\* stream moves into one closure, handed to the pool by one call of execute.
Accept_connection ==
    /\ conn_pc = "none"
    /\ conn_data' \in AcceptStreams
    /\ conn_pc' = "queued"
    /\ conn_trail' = <<"Accepted">>
    /\ submitted' = submitted + 1
    /\ UNCHANGED <<conn_router, conn_parsed, conn_response, router_calls,
                   conn_log>>
    /\ UNCHANGED <<pool_state, workers, channel, sender_alive, lock_holder,
                   thread, job, started, completed, term_sent, term_recv,
                   joined, at_drop>>
    /\ UNCHANGED <<frameVars, serveVars, parseVars, matchVars, routerVars,
                   dispatchVars, sendVars>>

\* `Err(e) => eprintln!("Failed to accept connection: {}", e)`: the loop
\* goes to the next item of listener.incoming().
Accept_error ==
    /\ accept_failed' = TRUE
    /\ UNCHANGED <<poolVars, frameVars, parseVars, matchVars, routerVars,
                   dispatchVars, sendVars, connVars>>

AcceptNext ==
    \/ Accept_connection
    \/ Accept_error
    \/ ConnNext

-----------------------------------------------------------------------------
(* serve                                                                   *)

\* `ThreadPool::new(4)`
PoolSize == 4
\* Largest number of connections the listener hands out.
MaxConns == 5

ServeWorkers == 0 .. PoolSize - 1
Connections == 1 .. MaxConns

\* What the peer of a connection sends before it closes its side.
ServeStreams ==
    {GetRoot, InvalidFormat, Http2Request, BodyPastLength,
     SubSeq(GetRoot, 1, 5)}

\* The closure serve hands to the pool, on a stream that delivers data:
\* parse_request, and on Ok router.call and send_response, whose result is
\* printed.  The two Err arms print and return; a panic inside parse_request
\* unwinds through the closure.
Closure(data) ==
    LET r == OneRead(data)
    IN  CASE r.kind = "Request" -> "responded"
          [] r.kind = "UnexpectedEof" -> "client_closed"
          [] r.kind \in {"InvalidData", "IoError"} -> "error_logged"
          [] OTHER -> "panicked"

ServeIdle == accept_failed = FALSE

\* `Err(e) => eprintln!(..)`: an accept that failed is logged and the loop
\* goes on.
Serve_accept_error ==
    /\ pool_state = "alive"
    /\ accept_failed' = TRUE
    /\ UNCHANGED <<poolVars, frameVars, parseVars, matchVars, routerVars, dispatchVars, sendVars, connVars>>

\* The worker runs the closure of its connection to its end: the closure
\* returns to the worker loop, or its panic unwinds into the worker thread.
Serve_closure(w) ==
    /\ thread[w] = "run"
    /\ \E data \in ServeStreams :
           IF Closure(data) = "panicked"
           THEN Job_panic(w)
           ELSE Job_return(w)

\* `for stream in listener.incoming()`: an accepted connection goes to
\* pool.execute, a failed accept is logged; the workers run the closures.
ServeNext ==
    \/ ThreadPool_new(PoolSize)
    \/ ThreadPool_execute
    \/ Serve_accept_error
    \/ \E w \in ServeWorkers : Worker_lock(w)
    \/ \E w \in ServeWorkers : Worker_recv(w)
    \/ \E w \in ServeWorkers : Serve_closure(w)

-----------------------------------------------------------------------------
(* The specifications.                                                     *)

PoolNext ==
    \/ \E size \in 0 .. MaxSize : ThreadPool_new(size)
    \/ ThreadPool_execute
    \/ Drop_begin
    \/ Drop_send_Terminate
    \/ Drop_join
    \/ \E w \in WorkerIds : Worker_lock(w)
    \/ \E w \in WorkerIds : Worker_recv(w)
    \/ \E w \in WorkerIds : Job_return(w)
    \/ \E w \in WorkerIds : Job_panic(w)

InitPool == PoolInit /\ FrameIdle /\ ServeIdle /\ ParseIdle /\ MatchIdle /\ Router_new /\ DispatchIdle /\ SendIdle /\ ConnIdle

SpecPool == InitPool /\ [][PoolNext]_vars

\* The scheduler runs every thread that can take a step; a job that was
\* called ends, by returning or by panicking.
PoolFairness ==
    /\ WF_vars(\E w \in WorkerIds : Worker_lock(w))
    /\ \A w \in WorkerIds : WF_vars(Worker_recv(w))
    /\ \A w \in WorkerIds : WF_vars(Job_return(w) \/ Job_panic(w))
    /\ WF_vars(Drop_send_Terminate)
    /\ WF_vars(Drop_join)

FairPool == SpecPool /\ PoolFairness

\* parse_request on one stream, delivered in reads of any sizes.
InitFrame == PoolInit /\ FrameInit /\ ServeIdle /\ ParseIdle /\ MatchIdle /\ Router_new /\ DispatchIdle /\ SendIdle /\ ConnIdle

SpecFrame == InitFrame /\ [][FrameNext]_vars

\* Request::try_from on one text, and the structured constructor.
InitParse == PoolInit /\ FrameIdle /\ ServeIdle /\ ParseInit /\ MatchIdle /\ Router_new /\ DispatchIdle /\ SendIdle /\ ConnIdle

SpecParse == InitParse /\ [][ParseNext]_vars

\* match_route on one pattern and one path.
InitMatch == PoolInit /\ FrameIdle /\ ServeIdle /\ ParseIdle /\ MatchInit
            /\ Router_new /\ DispatchIdle /\ SendIdle /\ ConnIdle

SpecMatch == InitMatch /\ [][MatchNext]_vars

\* A router built by calls of Router::route, then asked by Router::call.
InitRouter == PoolInit /\ FrameIdle /\ ServeIdle /\ ParseIdle /\ MatchIdle
              /\ Router_new /\ DispatchIdle /\ SendIdle /\ ConnIdle

SpecRouter == InitRouter /\ [][RouterNext]_vars

\* One call of call_handler on a handler with arguments.
InitDispatch == PoolInit /\ FrameIdle /\ ServeIdle /\ ParseIdle /\ MatchIdle
                /\ Router_new /\ DispatchInit /\ SendIdle /\ ConnIdle

SpecDispatch == InitDispatch /\ [][DispatchNext]_vars

\* send_response on one stream.
InitSend == PoolInit /\ FrameIdle /\ ServeIdle /\ ParseIdle /\ MatchIdle
            /\ Router_new /\ DispatchIdle /\ SendIdle /\ ConnIdle

SpecSend == InitSend /\ [][SendNext]_vars

\* The closure of serve on one connection, in a debug or a release build.
InitConn ==
    /\ PoolInit
    /\ build \in {"debug", "release"}
    /\ NoStream
    /\ ServeIdle /\ ParseIdle /\ MatchIdle /\ Router_new
    /\ DispatchIdle /\ SendIdle /\ ConnInit

SpecConn == InitConn /\ [][ConnNext]_vars

\* The worker thread that runs the closure is scheduled, and the calls of
\* read, write and flush on the stream return.
ConnFairness == WF_vars(ConnNext)

FairConn == SpecConn /\ ConnFairness

\* The accept loop of serve with one connection, in a debug or a release
\* build.
InitAccept ==
    /\ PoolInit
    /\ build \in {"debug", "release"}
    /\ NoStream
    /\ ServeIdle /\ ParseIdle /\ MatchIdle /\ Router_new
    /\ DispatchIdle /\ SendIdle /\ AcceptInit

SpecAccept == InitAccept /\ [][AcceptNext]_vars

\* serve: connections are accepted and handed to the pool of four workers.
InitServe ==
    /\ PoolFresh(ServeWorkers, Connections)
    /\ build \in {"debug", "release"}
    /\ NoStream
    /\ ServeIdle
    /\ ParseIdle
    /\ MatchIdle
    /\ Router_new /\ DispatchIdle /\ SendIdle /\ ConnIdle

SpecServe == InitServe /\ [][ServeNext]_vars

-----------------------------------------------------------------------------
(* Claims about the thread pool.                                           *)

AnyPanic == \E w \in DOMAIN thread : thread[w] = "panicked"

\* C2: every job submitted with execute is eventually called by some worker,
\* provided the jobs that start also finish (no job panics), under fair
\* scheduling of the workers, whatever the number of jobs and workers.
C2_EverySubmittedJobRuns ==
    \A j \in Jobs : (submitted >= j) ~> (started[j] >= 1 \/ AnyPanic)

\* C2 witness: more jobs than workers were submitted and all of them ran,
\* the last one after waiting in the channel, with no panic.
C2_Witness ==
    /\ workers = 1
    /\ submitted = MaxJobs
    /\ \A j \in Jobs : completed[j] = 1
    /\ ~AnyPanic

LiveWorkers == {w \in DOMAIN thread : thread[w] \in {"lock", "recv", "run"}}
InChannel(j) == Len(SelectSeq(channel, LAMBDA m : m = NewJob(j)))

\* C1: for a pool of N >= 1 workers and any sequence of submitted jobs, in
\* every interleaving no job is called more than once and no job is called by
\* two workers: a NewJob message is taken out of the channel by one worker,
\* which calls the job once.
C1_NoJobRunsTwice ==
    \A j \in Jobs :
        /\ started[j] <= 1
        /\ completed[j] <= started[j]
        /\ InChannel(j) + started[j] <= 1
        /\ Cardinality({w \in WorkerIds : job[w] = j}) <= 1
        /\ j > submitted => started[j] = 0

\* C1 witness: two workers of a full pool each run a job of their own, after
\* both took the lock on the receiver in turn.
C1_Witness ==
    /\ workers = MaxSize
    /\ submitted >= 2
    /\ Cardinality({w \in WorkerIds : thread[w] = "run"}) >= 2
    /\ \A w1, w2 \in WorkerIds :
           (w1 # w2 /\ thread[w1] = "run" /\ thread[w2] = "run")
               => job[w1] # job[w2]

\* C3: when drop returns, every job submitted before the drop, whether it was
\* running or still queued when drop began, has run to completion: none is
\* left in the channel, none is still running, none was cut short.
C3_DropDrainsEveryJob ==
    pool_state = "dropped" =>
        /\ \A j \in Jobs : j <= submitted => completed[j] = 1
        /\ \A w \in WorkerIds : thread[w] # "run"
        /\ channel = << >>

\* C3 witness: drop returned after it began with a job running and a job
\* still queued.
C3_Witness ==
    /\ pool_state = "dropped"
    /\ at_drop.queued >= 1
    /\ at_drop.running >= 1

\* C4: drop sends one Terminate per worker (N for N workers), all of them
\* before the first join, then joins every worker; when drop returns every
\* worker thread has left its loop.
C4_TerminateEachThenJoinAll ==
    /\ term_sent <= workers
    /\ (joined # {} \/ pool_state \in {"drop_join", "dropped"})
           => term_sent = workers
    /\ pool_state = "dropped" =>
           /\ joined = 0 .. workers - 1
           /\ \A w \in 0 .. workers - 1 : thread[w] = "exited"
           /\ LiveWorkers = {}

\* C4 witness: drop of a full pool returned.
C4_Witness ==
    /\ pool_state = "dropped"
    /\ workers = MaxSize
    /\ term_sent = MaxSize

\* C5: ThreadPool::new(N), N >= 1, creates the workers 0..N-1 and the number
\* of live workers stays N from construction until teardown; new(0) panics
\* and creates no worker.
C5_LiveWorkersStayN ==
    /\ pool_state = "new_panicked" => workers = 0 /\ LiveWorkers = {}
    /\ pool_state = "alive" => workers >= 1 /\ LiveWorkers = 0 .. workers - 1

\* C6: in every state in which the pool is alive, also with every worker busy
\* and jobs queued, execute completes by enqueueing the job.
C6_ExecuteAlwaysEnqueues ==
    [][ThreadPool_execute =>
           channel' = Append(channel, NewJob(submitted + 1))]_vars

\* C32: at most one worker holds the lock on the receiver, the worker that
\* holds it is the one in recv, and no worker holds it while it runs a job;
\* while a worker runs a job, a worker waiting for the lock can take it when
\* it is free and the worker in recv receives the next message as soon as
\* there is one.
C32_OneLockHolderNotWhileRunning ==
    /\ Cardinality({w \in WorkerIds : thread[w] = "recv"}) <= 1
    /\ \A w \in WorkerIds : thread[w] = "recv" <=> lock_holder = w
    /\ \A w \in WorkerIds : thread[w] = "run" => lock_holder # w
    /\ \A w, v \in WorkerIds :
           thread[w] = "run" =>
               /\ (thread[v] = "lock" /\ lock_holder = NoWorker)
                      => ENABLED Worker_lock(v)
               /\ (thread[v] = "recv" /\ channel # << >>)
                      => ENABLED Worker_recv(v)

\* C32 witness: while one worker runs a job another holds the lock and is
\* about to receive the next job.
C32_Witness ==
    /\ \E w, v \in WorkerIds :
           /\ thread[w] = "run"
           /\ thread[v] = "recv"
           /\ lock_holder = v
    /\ channel # << >>
    /\ Head(channel).type = "NewJob"

TerminateReceived == \E w \in WorkerIds : term_recv[w] >= 1

\* C38: messages leave the channel in the order they were sent: a job is
\* received only after every job submitted before it, the jobs still in the
\* channel are in submission order and later than every job received, no
\* job stands behind a Terminate, and a Terminate is received only after
\* every job that was sent; the order in which jobs complete is free.
C38_JobsReceivedInSubmissionOrder ==
    /\ \A i, j \in Jobs : (i < j /\ started[j] >= 1) => started[i] >= 1
    /\ \A p, q \in 1 .. Len(channel) :
           p < q =>
               /\ channel[p].type = "Terminate"
                      => channel[q].type = "Terminate"
               /\ channel[q].type = "NewJob"
                      => channel[p].job < channel[q].job
    /\ \A p \in 1 .. Len(channel), j \in Jobs :
           (channel[p].type = "NewJob" /\ started[j] >= 1)
               => j < channel[p].job
    /\ TerminateReceived =>
           \A j \in Jobs : j <= submitted => started[j] >= 1

\* C38 witness: the second job completed before the first, which was
\* received first and is still running.
C38_Witness ==
    /\ started[1] = 1
    /\ completed[1] = 0
    /\ completed[2] = 1

C33_OneTerminateEach ==
    /\ \A w \in WorkerIds : term_recv[w] <= 1
    /\ pool_state = "dropped" =>
           /\ \A w \in 0 .. workers - 1 :
                  term_recv[w] = 1 /\ thread[w] = "exited"
           /\ joined = 0 .. workers - 1
           /\ channel = << >>

\* C33: no worker receives two Terminate messages; when no job panics, a
\* drop that has begun returns, and then every worker has received one
\* Terminate and left its loop, every join has returned and no message is
\* left in the channel.
C33_DropTerminates ==
    /\ [] C33_OneTerminateEach
    /\ (pool_state = "drop_send") ~> (pool_state = "dropped" \/ AnyPanic)

\* C33 witness: drop of a full pool returned, every worker having received
\* one Terminate, though jobs were still queued when it began.
C33_Witness ==
    /\ pool_state = "dropped"
    /\ workers = MaxSize
    /\ at_drop.queued >= 1
    /\ \A w \in WorkerIds : term_recv[w] = 1

-----------------------------------------------------------------------------
(* Claims about fill_buffer and parse_request.                             *)

\* The wire format: a header block, the terminator and a body of exactly
\* Content-Length bytes (none when the block declares no length).
DeclaredBody(headers_str) ==
    IF Utf8Valid(headers_str) /\ ContentLengthOf(headers_str).ok
    THEN ContentLengthOf(headers_str).value
    ELSE 0

IsCompleteMessage(data) ==
    LET p == Find(data, Terminator)
    IN  /\ p # 0
        /\ Len(data) = (p - 1) + 4 + DeclaredBody(SubSeq(data, 1, p - 1))

\* C8: for every complete request message and every way of delivering its
\* bytes in non-empty partial reads, parse_request returns what it returns
\* when the message arrives in one read (the same bytes from fill_buffer, the
\* same Request or error), and it returns as soon as the last byte arrived.
C8_FramingIndependentOfReads ==
    IsCompleteMessage(stream_data) =>
        /\ result.kind \notin {"pending", "IoError"}
               => result = OneRead(stream_data)
        /\ stream_pos = Len(stream_data) => result.kind # "pending"

\* C8 witness: a message with a body arrived byte by byte and was parsed.
C8_Witness ==
    /\ bytewise
    /\ stream_pos = Len(stream_data)
    /\ stream_pos > 1
    /\ result.kind = "Request"
    /\ result.request.body.some

\* C9: a zero-byte read while fill_buffer is still reading, before the
\* terminator or with body bytes outstanding, makes parse_request return
\* UnexpectedEof, not InvalidData, whatever bytes were accumulated.
C9_ZeroReadIsUnexpectedEof ==
    zero_read => result.kind = "UnexpectedEof"

\* C9 witness: the peer closed with body bytes outstanding and malformed
\* UTF-8 in the buffer.
C9_Witness ==
    /\ zero_read
    /\ headers_complete
    /\ content_length > 0
    /\ ~Utf8Valid(buffer)

TerminatorReceived == Find(buffer, Terminator) # 0
HeadersStr == SubSeq(buffer, 1, Find(buffer, Terminator) - 1)
BadHeaderBlock == ~Utf8Valid(HeadersStr) \/ ~ContentLengthOf(HeadersStr).ok

\* The accumulated bytes are malformed: no UTF-8, a Content-Length that is
\* no number, or a text Request::try_from answers with an error.
Malformed ==
    \/ ~Utf8Valid(buffer)
    \/ BadHeaderBlock
    \/ Request_try_from(buffer).kind = "Err"

Returned == result.kind \in {"Request", "InvalidData", "UnexpectedEof"}

\* C10 as stated: once the terminator has been received, malformed bytes
\* make parse_request return InvalidData, never UnexpectedEof or a Request.
C10_MalformedIsInvalidData ==
    (TerminatorReceived /\ Malformed /\ Returned) => result.kind = "InvalidData"

\* C10 as amended: once the terminator has been received, a malformed header
\* block (no UTF-8, Content-Length no number) makes parse_request return
\* InvalidData at once; malformed UTF-8 after the terminator or a text that
\* Request::try_from rejects gives InvalidData when fill_buffer returns the
\* buffer and UnexpectedEof when a zero-byte read comes while body bytes are
\* outstanding; in no case a Request.
C10_MalformedIsInvalidDataOrEof ==
    (TerminatorReceived /\ Malformed) =>
        /\ result.kind # "Request"
        /\ BadHeaderBlock => result.kind = "InvalidData"
        /\ result.bytes # << >> => result.kind = "InvalidData"
        /\ Returned =>
              \/ result.kind = "InvalidData"
                     /\ (BadHeaderBlock \/ result.bytes # << >>)
              \/ result.kind = "UnexpectedEof"
                     /\ zero_read /\ content_length > 0

\* C10 witness: the whole body arrived, it holds malformed UTF-8 behind a
\* well-formed header block, and parse_request returned InvalidData.
C10_Witness ==
    /\ TerminatorReceived
    /\ ~BadHeaderBlock
    /\ ~Utf8Valid(buffer)
    /\ result.bytes = buffer
    /\ result.kind = "InvalidData"

\* fill_buffer returned Ok(buffer): parse_request went on with the bytes.
FillOk == result.bytes # << >>

\* The terminator is in the buffer and at least Content-Length bytes (0 when
\* the header is absent) are behind it.
BodyAccumulated ==
    /\ TerminatorReceived
    /\ ~BadHeaderBlock
    /\ Len(buffer) >= Len(HeadersStr) + 4 + ContentLengthOf(HeadersStr).value

\* C11: fill_buffer returns the accumulated bytes exactly when the terminator
\* has been found and at least Content-Length bytes are accumulated past it:
\* never earlier, and then at once without a further read, for every input
\* and chunking, reads that deliver more than Content-Length bytes past the
\* terminator included.
C11_FillBufferReturnsWhenComplete ==
    /\ FillOk => BodyAccumulated /\ result.bytes = buffer
    /\ BodyAccumulated => FillOk

\* The counter holds what a subtraction that wrapped around left in it: a
\* value within one read of usize::MAX.
CounterWrapped == content_length + TempBufferSize >= UsizeModulus

\* C39: the counter of body bytes still to read never underflows: whatever
\* the stream delivers and in whatever reads, neither subtraction panics on
\* overflow (debug build) or wraps the counter around (release build).
C39_CounterNeverUnderflows ==
    /\ result.kind # "panic_overflow"
    /\ ~CounterWrapped

-----------------------------------------------------------------------------
(* Claims about Request::try_from.                                         *)

\* The tokens of in_line are the whitespace-separated tokens of the text's
\* first line: none is empty, none holds whitespace.
WellTokenized ==
    \A i \in 1 .. Len(in_line) :
        /\ in_line[i] # << >>
        /\ \A k \in 1 .. Len(in_line[i]) : in_line[i][k] \notin Whitespace

\* The token is GET, POST, OPTIONS, HEAD, PUT, DELETE or PATCH in any case.
Recognized(token) == \E m \in MethodNames : m[1] = ToUppercase(token)

\* C12: the parser accepts a first line only if it has exactly three
\* whitespace-separated tokens and the method token is one of the seven
\* methods in any case; a first line with fewer or more tokens (empty and
\* whitespace-only input included) or with an unrecognized method yields the
\* invalid-request error and no Request.
C12_RequestLineShape ==
    (WellTokenized /\ try_result.kind # "none") =>
        /\ try_result.kind = "Ok"
               => Len(in_line) = 3 /\ Recognized(in_line[1])
        /\ (Len(in_line) # 3 \/ ~Recognized(in_line[1]))
               => try_result = InvalidRequestError

\* C13: only HTTP/1.1 is supported: a request whose version token is
\* anything else is never parsed into a Request (which would go on to the
\* router and a handler).
C13_OnlyHttp11IsParsed ==
    (WellTokenized /\ try_result.kind = "Ok") => in_line[3] = Http11

\* The first line passes: three tokens, a recognized method, a version the
\* parser does not refuse; the header lines and the empty line follow.
GoodFirstLine ==
    /\ WellTokenized
    /\ Len(in_line) = 3
    /\ Recognized(in_line[1])
    /\ in_line[3] # Http2
    /\ in_form # "bare"

Has(text, c) == \E k \in 1 .. Len(text) : text[k] = c

\* The item's line has ": " first between its name and its value, or not
\* at all.
PlainItem(item) ==
    /\ ~Has(item.name, ":")
    /\ item.sep # ColonSpace => ~Has(HeaderLine(item), " ")
    /\ ~Has(HeaderLine(item), "\r")

\* C14: every line between the request line and the first empty line is one
\* header, split at the first ": " into name and value (later ": " stay in
\* the value); the headers are stored in arrival order, duplicates kept; a
\* header line without ": " makes the parse fail with the invalid-request
\* error.
C14_HeadersSplitAtFirstSeparator ==
    (/\ GoodFirstLine
     /\ \A i \in 1 .. Len(in_headers) : PlainItem(in_headers[i])
     /\ try_result.kind # "none") =>
        IF \A i \in 1 .. Len(in_headers) : in_headers[i].sep = ColonSpace
        THEN /\ try_result.kind = "Ok"
             /\ try_result.request.headers =
                    [i \in 1 .. Len(in_headers) |->
                        <<in_headers[i].name, in_headers[i].value>>]
        ELSE try_result = InvalidRequestError

\* C14 witness: two headers of the same name were parsed and both are kept,
\* in their order.
C14_Witness ==
    /\ try_result.kind = "Ok"
    /\ Len(try_result.request.headers) = 2
    /\ try_result.request.headers[1][1] = try_result.request.headers[2][1]
    /\ try_result.request.headers[1][2] = <<"1">>
    /\ try_result.request.headers[2][2] = <<"2">>

\* C15: the parsed body is exactly the text that follows the first empty
\* line, unchanged, line breaks inside it included; when nothing follows the
\* empty line, or there is none, the Request has no body, never Some of an
\* empty text.
C15_BodyIsTextAfterEmptyLine ==
    try_result.kind = "Ok" =>
        /\ try_result.request.body # Some(<< >>)
        /\ in_form = "bare" => try_result.request.body = NoBody
        /\ GoodFirstLine =>
               try_result.request.body =
                   IF in_body.text = << >> THEN NoBody
                   ELSE Some(in_body.text)

\* C15 witness: a body that itself holds an empty line was parsed.
C15_Witness ==
    /\ try_result.kind = "Ok"
    /\ try_result.request.body.some
    /\ Find(try_result.request.body.text, Terminator) # 0
    /\ try_result.request.body = in_body

\* Ok(request) of Request::try_from
Parsed(request) == [kind |-> "Ok", request |-> request]

\* C16 as stated: for every method, path, header list and optional body the
\* Request built with with_headers and set_body and the Request parsed from
\* the textual form are equal field for field, path parameters empty in both.
C16_BuiltEqualsParsed ==
    (built.made /\ try_result.kind # "none") =>
        /\ try_result = Parsed(built.request)
        /\ built.request.path_params = << >>

\* The text can carry the values: the path is one token, no header name
\* holds ": ", no header holds a line break, a body that is present is not
\* empty.
Representable ==
    /\ WellTokenized
    /\ \A i \in 1 .. Len(in_headers) :
           /\ Find(in_headers[i].name, ColonSpace) = 0
           /\ Find(HeaderLine(in_headers[i]), CRLF) = 0
    /\ in_body # Some(<< >>)

\* C16 as amended: the two Requests are equal field for field, path
\* parameters empty in both, for every method, every path that is one
\* non-empty token without whitespace, every list of headers whose names
\* hold no ": " and whose names and values hold no line break, and every
\* body that is absent or not empty.
C16_BuiltEqualsParsedIfRepresentable ==
    (built.made /\ Representable /\ try_result.kind # "none") =>
        /\ try_result = Parsed(built.request)
        /\ built.request.path_params = << >>
        /\ try_result.request.path_params = << >>

\* C16 witness: a request with two headers and a body was built and parsed,
\* and the two are equal.
C16_Witness ==
    /\ built.made
    /\ Len(built.request.headers) = 2
    /\ built.request.body.some
    /\ try_result = Parsed(built.request)

-----------------------------------------------------------------------------
(* Claims about match_route.                                               *)

\* Pattern and path have as many segments, and every pattern segment that
\* does not start with ':' equals the path segment at its position.
SegmentsAgree(pattern_segs, path_segs) ==
    /\ Len(pattern_segs) = Len(path_segs)
    /\ \A i \in 1 .. Len(pattern_segs) :
           (pattern_segs[i] = << >> \/ pattern_segs[i][1] # ":")
               => pattern_segs[i] = path_segs[i]

\* The pieces of the text between its '/' characters.
SlashDelimited(text) == Split(text, <<"/">>)

\* C17 as stated: match_route succeeds if and only if pattern and path have
\* the same number of '/'-delimited segments and every pattern segment that
\* does not start with ':' is equal to the path segment at its position.
C17_MatchIffSegmentsAgree ==
    match_result.kind # "none" =>
        (match_result.kind = "Some"
            <=> SegmentsAgree(SlashDelimited(TextOf(route_pattern)),
                              SlashDelimited(TextOf(route_path))))

\* C17 as amended: the segments are those of pattern and path after all
\* their leading '/' characters are removed; match_route succeeds if and
\* only if these are as many in both and every pattern segment that does not
\* start with ':' is equal to the path segment at its position.
C17_MatchIffStrippedSegmentsAgree ==
    match_result.kind # "none" =>
        (match_result.kind = "Some"
            <=> SegmentsAgree(route_pattern.segs, route_path.segs))

\* C17 witness: /hello/:id matched /hello/5.
C17_Witness ==
    /\ route_pattern =
           [lead |-> 1, segs |-> <<<<"h", "e", "l", "l", "o">>, <<":", "i", "d">>>>]
    /\ route_path = [lead |-> 1, segs |-> <<<<"h", "e", "l", "l", "o">>, <<"5">>>>]
    /\ match_result.kind = "Some"

\* The positions of the pattern's ':'-segments.
WildcardPositions ==
    {i \in 1 .. Len(route_pattern.segs) :
        /\ route_pattern.segs[i] # << >>
        /\ route_pattern.segs[i][1] = ":"}

\* The k-th of them from the left.
KthWildcard(k) ==
    CHOOSE i \in WildcardPositions :
        Cardinality({j \in WildcardPositions : j < i}) = k - 1

\* C18: on a successful match the path parameters have exactly one entry
\* for each ':'-segment of the pattern, and the k-th entry is the path
\* segment at the position of the k-th wildcard from the left; literal
\* segments contribute nothing.
C18_ParamsAlignWithWildcards ==
    match_result.kind = "Some" =>
        /\ Len(match_result.params) = Cardinality(WildcardPositions)
        /\ \A k \in 1 .. Len(match_result.params) :
               match_result.params[k] = route_path.segs[KthWildcard(k)]

\* C18 witness: a pattern of two wildcards matched a path of two different
\* segments.
C18_Witness ==
    /\ match_result.kind = "Some"
    /\ Cardinality(WildcardPositions) = 2
    /\ Len(match_result.params) = 2
    /\ match_result.params[1] # match_result.params[2]

-----------------------------------------------------------------------------
(* Claims about Router.                                                    *)

\* The registered patterns that match the path of the request.
MatchingPatterns ==
    {p \in DOMAIN routes : match_route(p, call.request.path).kind = "Some"}

\* Those of them whose table has a handler for the method of the request.
ServingPatterns ==
    {p \in MatchingPatterns : call.request.method \in DOMAIN routes[p]}

\* The response is the fixed 404 response.
IsNotFoundResponse(response) ==
    /\ response.status_code = 404
    /\ response.headers = <<<<<<"C", "o", "n", "t", "e", "n", "t", "-", "T", "y", "p", "e">>, <<"t", "e", "x", "t", "/", "p", "l", "a", "i", "n">>>>>>
    /\ response.body = <<"N", "o", "t", " ", "F", "o", "u", "n", "d">>

RegistrationsOf(pattern) ==
    {i \in 1 .. Len(registered) : registered[i][1] = pattern}

\* The table of the last of them.
LastTable(pattern) ==
    registered[CHOOSE i \in RegistrationsOf(pattern) :
                   \A j \in RegistrationsOf(pattern) : j <= i][2]

\* C20: the router keeps for every registered pattern the table of its
\* last registration alone, and after a pattern p was registered more than
\* once a request for the path p is answered from the last table: by its
\* handler for the method if it has one, and else by the 404 response.
C20_LastRegistrationWins ==
    /\ DOMAIN routes = {registered[i][1] : i \in 1 .. Len(registered)}
    /\ \A p \in DOMAIN routes : routes[p] = LastTable(p)
    /\ call.done =>
           \A p \in DOMAIN routes :
               (Cardinality(RegistrationsOf(p)) >= 2
                  /\ call.request.path = p) =>
                   IF call.request.method \in DOMAIN LastTable(p)
                   THEN /\ call.handler =
                               LastTable(p)[call.request.method]
                        /\ call.response =
                               call_handler(call.handler, call.passed)
                   ELSE /\ call.handler = NoHandler
                        /\ IsNotFoundResponse(call.response)

\* The pattern under which the invoked handler is registered.
HandlerPattern == registered[call.handler.route][1]

\* C21: whenever Router::call invokes a handler, the request it passes is
\* the request it was given with the path parameters set to the values
\* captured by matching the path against the pattern under which that
\* handler is registered, also when other registered patterns match the
\* path, and the response of the call is the response of the handler.
C21_HandlerGetsItsPatternsParams ==
    (call.done /\ call.handler # NoHandler) =>
        /\ HandlerPattern \in DOMAIN routes
        /\ routes[HandlerPattern][call.request.method] = call.handler
        /\ match_route(HandlerPattern, call.request.path).kind = "Some"
        /\ call.passed =
               [call.request EXCEPT !.path_params =
                   match_route(HandlerPattern, call.request.path).params]
        /\ call.response = call_handler(call.handler, call.passed)

\* C21 witness: two registered patterns matched the path with different
\* captures; the handler of the wildcard pattern was invoked and was passed
\* the segment the wildcard captured.
C21_Witness ==
    /\ call.done
    /\ call.handler # NoHandler
    /\ Cardinality(MatchingPatterns) = 2
    /\ HandlerPattern = <<"/", ":", "x">>
    /\ call.passed.path_params = <<<<"h", "e", "l", "l", "o">>>>

\* C34: when a registered pattern matches the path of the request and the
\* table of that pattern has no handler for the method of the request,
\* Router::call looks into no other table: it invokes no handler and returns
\* the 404 response.
C34_MethodLookedUpInMatchedPatternOnly ==
    (call.done /\ MatchingPatterns # ServingPatterns) =>
        /\ call.handler = NoHandler
        /\ IsNotFoundResponse(call.response)

-----------------------------------------------------------------------------
(* Claims about call_handler and the extractors.                           *)

\* The response is the 400 response of a failed extraction.
IsBadRequestResponse(response) ==
    /\ response.status_code = 400
    /\ response.headers = <<<<<<"C", "o", "n", "t", "e", "n", "t", "-", "T", "y", "p", "e">>, <<"t", "e", "x", "t", "/", "p", "l", "a", "i", "n">>>>>>
    /\ response.body = <<"B", "a", "d", " ", "r", "e", "q", "u", "e", "s", "t">>

\* An extraction that ran has failed.
ExtractionFailed == \E i \in 1 .. Len(extracted) : ~extracted[i].ok

\* C22: the extractions run are those of the first arguments, each run
\* once and in the order of the arguments; an extraction that failed is the
\* last one run, the response is then the 400 response with Content-Type:
\* text/plain and body "Bad request", and the handler function is not
\* called; the handler function is called at most once, only after the
\* extractions of all arguments succeeded, and then it is called.
C22_ExtractLeftToRightStopAtFailure ==
    /\ Len(extracted) <= Len(handler_args)
    /\ \A i \in 1 .. Len(extracted) - 1 : extracted[i].ok
    /\ ExtractionFailed =>
           /\ invoked = 0
           /\ IsBadRequestResponse(handler_response)
           /\ ~ENABLED DispatchNext
    /\ invoked <= 1
    /\ invoked = 1 =>
           /\ Len(extracted) = Len(handler_args)
           /\ ~ExtractionFailed
    /\ (Len(extracted) = Len(handler_args) /\ ~ExtractionFailed
           /\ invoked = 0) => ENABLED Dispatch_invoke

\* C22 witness: the first of several extractions failed; no other was run
\* and the handler function was not called.
C22_Witness ==
    /\ Len(handler_args) >= 2
    /\ Len(extracted) = 1
    /\ ~extracted[1].ok
    /\ invoked = 0
    /\ handler_response.status_code = 400

\* The handler's last argument is a String and its extraction has run.
StringExtracted ==
    /\ handler_args # << >>
    /\ handler_args[Len(handler_args)] = "String"
    /\ Len(extracted) = Len(handler_args)

\* C23: a String as last argument is the body text of the request as it
\* is; for a request without body its extraction fails, the response is
\* the 400 response and the handler function is not called.  For the
\* request POST /post/5 matched against /post/:id and a handler of a
\* Path(id) and a String: with the body "Hello Rust" the response is 200
\* with body "ID: 5, Body: Hello Rust", without body it is the 400 response.
C23_StringIsRawBody ==
    /\ StringExtracted =>
           IF dispatch_request.body.some
           THEN extracted[Len(extracted)] =
                    ExtractOk(dispatch_request.body.text)
           ELSE /\ ~extracted[Len(extracted)].ok
                /\ invoked = 0
                /\ IsBadRequestResponse(handler_response)
    /\ (/\ handler_args = <<"Path", "String">>
        /\ dispatch_request.path_params =
               match_route(<<"/", "p", "o", "s", "t", "/", ":", "i", "d">>, dispatch_request.path).params
        /\ handler_response # NoResponse) =>
           IF dispatch_request.body.some
           THEN dispatch_request.body.text = <<"H", "e", "l", "l", "o", " ", "R", "u", "s", "t">> =>
                    /\ invoked = 1
                    /\ handler_response.status_code = 200
                    /\ handler_response.body = <<"I", "D", ":", " ", "5", ",", " ", "B", "o", "d", "y", ":", " ", "H", "e", "l", "l", "o", " ", "R", "u", "s", "t">>
           ELSE /\ invoked = 0
                /\ IsBadRequestResponse(handler_response)

\* C23 witness: the handler of a Path(id) and a String answered the request
\* with path parameter 5 and body "Hello Rust".
C23_Witness ==
    /\ handler_args = <<"Path", "String">>
    /\ dispatch_request.path_params = <<<<"5">>>>
    /\ dispatch_request.body = Some(<<"H", "e", "l", "l", "o", " ", "R", "u", "s", "t">>)
    /\ invoked = 1
    /\ handler_response.body = <<"I", "D", ":", " ", "5", ",", " ", "B", "o", "d", "y", ":", " ", "H", "e", "l", "l", "o", " ", "R", "u", "s", "t">>

\* The text is decimal digits, one "+" before them allowed, of a value that
\* fits a usize.
IsUnsigned(text) ==
    LET digits == IF text # << >> /\ text[1] = "+" THEN Tail(text) ELSE text
    IN  /\ digits # << >>
        /\ \A i \in 1 .. Len(digits) : IsDigit(digits[i])
        /\ Len(digits) <= MaxDigits

\* The handler's first argument is a Path<usize> and its extraction has run.
PathExtracted ==
    /\ handler_args # << >>
    /\ handler_args[1] = "Path"
    /\ Len(extracted) >= 1

\* C24: Path<usize> gives the first path parameter as a number: 5 for "5"
\* and "+5", 44 for "44", 7 for "007".  Without path parameters, and with a
\* first parameter that is empty, has a character that is no digit, is
\* negative or is too large, the extraction fails, the handler function is
\* not called and the response is 400 BAD REQUEST with body "Bad request".
C24_PathIsFirstParamAsUsize ==
    PathExtracted =>
        IF /\ dispatch_request.path_params # << >>
           /\ IsUnsigned(dispatch_request.path_params[1])
        THEN /\ extracted[1].ok
             /\ UsizeToString(extracted[1].value) =
                    CASE dispatch_request.path_params[1] = <<"5">> -> <<"5">>
                      [] dispatch_request.path_params[1] = <<"+", "5">> -> <<"5">>
                      [] dispatch_request.path_params[1] = <<"4", "4">> -> <<"4", "4">>
                      [] dispatch_request.path_params[1] = <<"0", "0", "7">> -> <<"7">>
        ELSE /\ ~extracted[1].ok
             /\ invoked = 0
             /\ IsBadRequestResponse(handler_response)
             /\ Response_stream(handler_response) = StreamOk(<<"H", "T", "T", "P", "/", "1", ".", "1", " ", "4", "0", "0", " ", "B", "A", "D", " ", "R", "E", "Q", "U", "E", "S", "T", "\r", "\n", "C", "o", "n", "t", "e", "n", "t", "-", "T", "y", "p", "e", ":", " ", "t", "e", "x", "t", "/", "p", "l", "a", "i", "n", "\r", "\n", "\r", "\n", "B", "a", "d", " ", "r", "e", "q", "u", "e", "s", "t">>)

\* C24 witness: a handler with a Path<usize> was given a request without
\* path parameters and answered 400.
C24_Witness ==
    /\ PathExtracted
    /\ dispatch_request.path_params = << >>
    /\ ~extracted[1].ok
    /\ invoked = 0
    /\ handler_response.status_code = 400

\* C25: a handler without arguments runs no extraction and is called
\* whatever the headers, the body and the path parameters of the request;
\* the String it returns becomes the response with status 200, the one
\* header Content-Type: text/plain and the String as body, which for
\* "Hello, World!" serializes as
\* HTTP/1.1 200 OK\r\nContent-Type: text/plain\r\n\r\nHello, World!
C25_NoArgumentHandlerAlwaysRuns ==
    handler_args = << >> =>
        /\ extracted = << >>
        /\ IF invoked = 0
           THEN /\ handler_response = NoResponse
                /\ ENABLED Dispatch_invoke
           ELSE /\ invoked = 1
                /\ handler_response.status_code = 200
                /\ handler_response.headers = <<<<<<"C", "o", "n", "t", "e", "n", "t", "-", "T", "y", "p", "e">>, <<"t", "e", "x", "t", "/", "p", "l", "a", "i", "n">>>>>>
                /\ handler_response.body = <<"H", "e", "l", "l", "o", ",", " ", "W", "o", "r", "l", "d", "!">>
                /\ Response_stream(handler_response) = StreamOk(<<"H", "T", "T", "P", "/", "1", ".", "1", " ", "2", "0", "0", " ", "O", "K", "\r", "\n", "C", "o", "n", "t", "e", "n", "t", "-", "T", "y", "p", "e", ":", " ", "t", "e", "x", "t", "/", "p", "l", "a", "i", "n", "\r", "\n", "\r", "\n", "H", "e", "l", "l", "o", ",", " ", "W", "o", "r", "l", "d", "!">>)

\* C25 witness: a handler without arguments answered a request that has a
\* header, a body and path parameters that are no numbers.
C25_Witness ==
    /\ handler_args = << >>
    /\ dispatch_request.headers # << >>
    /\ dispatch_request.body.some
    /\ dispatch_request.path_params = <<<<"a", "b", "c">>, <<"5">>>>
    /\ invoked = 1
    /\ handler_response.status_code = 200

\* What the k-th path extractor gives when it is handed the k-th captured
\* parameter.
FromKthParam(k) ==
    IF Len(dispatch_request.path_params) < k THEN ExtractErr
    ELSE LET param == ParseUsize(dispatch_request.path_params[k])
         IN  IF param.ok THEN ExtractOk(param.value) ELSE ExtractErr

\* C35: the path extractors of a handler consume the captured parameters in
\* order: the k-th Path argument is extracted from the k-th path parameter.
C35_KthPathExtractorGetsKthParam ==
    \A k \in 1 .. Len(extracted) :
        handler_args[k] = "Path" => extracted[k] = FromKthParam(k)

-----------------------------------------------------------------------------
(* Claims about Response::as_bytes and send_response.                      *)

\* The status line, the header lines in stored order, and the empty line.
HeadLines(response) ==
    <<Join(<<<<"H", "T", "T", "P", "/", "1", ".", "1">>,
             CASE response.status_code = 200 -> <<"2", "0", "0">>
               [] response.status_code = 400 -> <<"4", "0", "0">>
               [] response.status_code = 404 -> <<"4", "0", "4">>,
             CASE response.status_code = 200 -> <<"O", "K">>
               [] response.status_code = 400 -> <<"B", "A", "D", " ", "R", "E", "Q", "U", "E", "S", "T">>
               [] response.status_code = 404 -> <<"N", "O", "T", " ", "F", "O", "U", "N", "D">>>>,
           <<" ">>)>>
    \o [i \in 1 .. Len(response.headers) |->
           Join(<<response.headers[i][1], response.headers[i][2]>>,
                <<":", " ">>)]
    \o <<<< >>>>

\* The text of a response with status 200, 400 or 404: those lines, each
\* ended by a line break, and then the body.
Serialized(response) == Join(HeadLines(response), CRLF) \o CRLF \o response.body

\* C29: the bytes given to the stream are the beginning of "HTTP/1.1 ",
\* the status, " ", the reason (OK for 200, BAD REQUEST for 400, NOT FOUND
\* for 404), a line break, "Name: Value" and a line break for each header in
\* stored order, a line break, and the body with nothing after it, and are
\* all of it when the write accepted everything; for a response with any
\* other status the call panics and the stream is given no byte.
C29_ResponseSerialization ==
    send_pc \in {"flush", "done"} =>
        IF sending.status_code \in {200, 400, 404}
        THEN /\ send_result.kind \in {"Ok", "Err"}
             /\ Len(wire) <= Len(Serialized(sending))
             /\ wire = SubSeq(Serialized(sending), 1, Len(wire))
             /\ Response_stream(sending) = StreamOk(Serialized(sending))
             /\ sending = String_into_response(<<"H", "e", "l", "l", "o", ",", " ", "W", "o", "r", "l", "d", "!">>) =>
                    Response_stream(sending).text = <<"H", "T", "T", "P", "/", "1", ".", "1", " ", "2", "0", "0", " ", "O", "K", "\r", "\n", "C", "o", "n", "t", "e", "n", "t", "-", "T", "y", "p", "e", ":", " ", "t", "e", "x", "t", "/", "p", "l", "a", "i", "n", "\r", "\n", "\r", "\n", "H", "e", "l", "l", "o", ",", " ", "W", "o", "r", "l", "d", "!">>
             /\ sending = NotFound =>
                    Response_stream(sending).text = <<"H", "T", "T", "P", "/", "1", ".", "1", " ", "4", "0", "4", " ", "N", "O", "T", " ", "F", "O", "U", "N", "D", "\r", "\n", "C", "o", "n", "t", "e", "n", "t", "-", "T", "y", "p", "e", ":", " ", "t", "e", "x", "t", "/", "p", "l", "a", "i", "n", "\r", "\n", "\r", "\n", "N", "o", "t", " ", "F", "o", "u", "n", "d">>
        ELSE /\ send_result = SendPanic
             /\ wire = << >>

\* C29 witness: a response with two headers went to the stream whole.
C29_Witness ==
    /\ send_pc = "done"
    /\ Len(sending.headers) = 2
    /\ send_result = SendOk(Len(wire))
    /\ wire = Response_stream(sending).text

\* C30: when send_response returns Ok(n), the stream has received the
\* bytes of the serialized response, all of them and in order, and n is
\* their number.
C30_OkMeansWholeResponseSent ==
    (send_pc = "done" /\ send_result.kind = "Ok") =>
        /\ wire = Response_stream(sending).text
        /\ send_result.n = Len(Response_stream(sending).text)

-----------------------------------------------------------------------------
(* Claims about the closure of serve on one connection.                    *)

StateIndex(name) == CHOOSE i \in 1 .. Len(ConnStates) : ConnStates[i] = name

\* The connection went through its states in their order, each entered
\* from the one before it, except that Closed is entered from any of them.
InOrder(trail) ==
    /\ Len(trail) >= 1
    /\ trail[1] = "Accepted"
    /\ \A i \in 1 .. Len(trail) - 1 :
           \/ StateIndex(trail[i + 1]) = StateIndex(trail[i]) + 1
           \/ /\ trail[i + 1] = "Closed"
              /\ trail[i] # "Closed"

Visited(name) == \E i \in 1 .. Len(conn_trail) : conn_trail[i] = name

C26_Order ==
    /\ InOrder(conn_trail)
    /\ router_calls <= 1
    /\ (wire # << >> \/ Visited("Written")) =>
           /\ Visited("Framing") /\ Visited("Parsed") /\ Visited("Routed")
           /\ conn_parsed.kind = "Request"
           /\ router_calls = 1
           /\ conn_response # NoResponse

C26_Closed == conn_pc = "end" /\ conn_trail[Len(conn_trail)] = "Closed"

StderrLines == {"stderr: An error occurred", "stderr: thread panicked"}

StderrEntries == {i \in 1 .. Len(conn_log) : conn_log[i] \in StderrLines}

NothingSent == wire = << >> /\ send_pc = "idle" /\ router_calls = 0

\* C27: when parse_request returns UnexpectedEof the closure ends with no
\* byte written to the stream, router.call not run and nothing printed to
\* stderr; when parse_request fails in any other way (invalid data, a read
\* error, a panic) the failure is printed to stderr and the closure ends,
\* again with no byte written and router.call not run.
C27_EofSilentOtherErrorsLogged ==
    conn_parsed.kind \notin {"pending", "Request"} =>
        /\ C26_Closed
        /\ NothingSent
        /\ IF conn_parsed.kind = "UnexpectedEof"
           THEN StderrEntries = {}
           ELSE StderrEntries # {}

\* The peer closed after five bytes of a request and the closure ended.
C27_Witness ==
    /\ conn_data = SubSeq(GetRoot, 1, 5)
    /\ conn_parsed.kind = "UnexpectedEof"
    /\ conn_pc = "end"

\* router.call returned the Response of the handler it called.
IsHandlersResponse ==
    /\ invoked = 1
    /\ conn_response = handler_response
    /\ conn_response.status_code = 200
    /\ ~ExtractionFailed

\* router.call returned the 400 of an extraction that failed, the handler
\* not called.
IsExtractionFailure ==
    /\ invoked = 0
    /\ ExtractionFailed
    /\ IsBadRequestResponse(conn_response)

\* router.call returned the 404, no handler looked at.
IsRouteNotFound ==
    /\ invoked = 0
    /\ extracted = << >>
    /\ dispatch_request = NoRequest
    /\ IsNotFoundResponse(conn_response)

C28_OneResponse ==
    /\ Visited("Routed") =>
           /\ router_calls = 1
           /\ IsHandlersResponse \/ IsExtractionFailure \/ IsRouteNotFound
    /\ (Visited("Parsed") /\ ~Visited("Routed")) =>
           /\ conn_pc \in {"call", "dispatch"}
           /\ StderrEntries = {}
           /\ wire = << >>

\* C28: for every Request parse_request returned and every router,
\* router.call returns one Response, which is the response of the handler
\* it called, the 400 of a failed extraction or the 404; between Parsed and
\* Routed the closure neither ends nor prints an error, and a connection
\* that is Parsed becomes Routed.
C28_RouterIsTotal ==
    [] C28_OneResponse /\ (Visited("Parsed") ~> Visited("Routed"))

\* A connection was routed to the 400 of an extraction failure: the handler
\* of a Path<usize> on a route without wildcard.
C28_Witness ==
    /\ Visited("Routed")
    /\ IsExtractionFailure
    /\ conn_router = NoWildcardRouter

SendFailed == send_result.kind = "Err"

\* After send_response failed: it has returned, the closure has printed the
\* error once and nothing else to stderr, and goes to its end without panic.
C36_FailureLogged ==
    SendFailed =>
        /\ send_pc = "done"
        /\ conn_pc \in {"send", "return", "end"}
        /\ conn_pc # "send" =>
               /\ StderrEntries # {}
               /\ \A i \in StderrEntries :
                      /\ conn_log[i] = "stderr: An error occurred"
                      /\ i = Len(conn_log)
        /\ ~Visited("Written")
        /\ router_calls = 1

\* send_response is entered once and calls write once; once it has failed
\* the stream gets no more bytes and nothing is tried again.
C36_NoRetry ==
    /\ send_pc # "idle" => send_pc' # "idle"
    /\ send_pc # "write" => (send_pc' = "write" => send_pc = "idle")
    /\ SendFailed =>
           /\ wire' = wire
           /\ send_result' = send_result
           /\ send_pc' = send_pc
           /\ router_calls' = router_calls
           /\ conn_response' = conn_response

\* C36: when the write or the flush of the response fails, the closure has
\* made its one call of write, prints the error to stderr, writes nothing
\* more, tries nothing again and returns to the worker loop without panic,
\* the connection closed.
C36_WriteFailureIsTerminal ==
    /\ [] C36_FailureLogged
    /\ [][C36_NoRetry]_vars
    /\ SendFailed ~> (C26_Closed /\ conn_trail[Len(conn_trail) - 1] = "Routed")

\* C36 witness: the flush failed after write had accepted a part of the
\* response, and the closure ended.
C36_Witness ==
    /\ SendFailed
    /\ wire # << >>
    /\ conn_pc = "end"

\* The connection has its one job, framed at most one request and its
\* stream got at most the bytes of the one response.
C37_OneJobOneRequest ==
    /\ submitted = (IF conn_pc = "none" THEN 0 ELSE 1)
    /\ router_calls <= 1
    /\ (conn_trail # << >>) => InOrder(conn_trail)
    /\ (send_pc # "idle") =>
           /\ sending = conn_response
           /\ Response_stream(sending).kind = "Ok"
           /\ Len(wire) <= Len(Response_stream(sending).text)
           /\ wire = SubSeq(Response_stream(sending).text, 1, Len(wire))
    /\ (send_pc = "idle") => wire = << >>
    /\ (conn_pc = "end") => conn_trail[Len(conn_trail)] = "Closed"
    /\ (accept_failed /\ conn_pc = "none") => ENABLED Accept_connection

\* parse_request and send_response each return once, after send_response
\* returned the closure only ends, and a failed accept touches neither the
\* pool nor a connection.
C37_NothingTwice ==
    /\ conn_parsed.kind # "pending" => conn_parsed' = conn_parsed
    /\ send_result.kind # "none" =>
           /\ wire' = wire
           /\ (send_result' # send_result =>
                   send_pc = "flush" /\ send_result'.kind = "Err")
    /\ (send_pc = "done" \/ conn_pc \in {"return", "end"}) =>
           conn_pc' \in {"send", "return", "end"}
    /\ conn_pc # "none" => submitted' = submitted
    /\ accept_failed' # accept_failed =>
           UNCHANGED <<poolVars, connVars, sendVars, dispatchVars>>

\* C37: an accepted connection is handed to the pool by one call of
\* execute; its closure frames at most one request, calls the router at
\* most once and writes at most one response, and after send_response it
\* reads nothing more and ends, the connection closed, also when the peer
\* sent a second request; a failed accept submits nothing and the loop goes
\* on accepting.
C37_OneJobOneRequestPerConnection ==
    [] C37_OneJobOneRequest /\ [][C37_NothingTwice]_vars

\* C37 witness: after a failed accept a connection with a request was
\* accepted, answered and closed.
C37_Witness ==
    /\ accept_failed
    /\ submitted = 1
    /\ conn_trail = ConnStates
    /\ wire # << >>
    /\ conn_pc = "end"

-----------------------------------------------------------------------------
(* Claims about serve.                                                     *)

\* C7: parsing and framing failures, a request whose version token is
\* HTTP/2.0 among them, are recovered from inside the job: they end no worker
\* thread, all N workers stay alive across them, and later connections are
\* still handed to the pool and served.
C7_FailuresLeaveWorkersAlive ==
    pool_state # "unbuilt" =>
        /\ \A w \in ServeWorkers : thread[w] \in {"lock", "recv", "run"}
        /\ pool_state = "alive"

\* C31: with the pool of N workers of serve at most N connections are being
\* processed at one time, every other accepted connection is waiting in the
\* channel or was taken by a worker, and the accept loop hands a connection
\* to the pool without waiting, whatever the workers are doing.
C31_AtMostNProcessedRestQueued ==
    /\ RunningJobs <= PoolSize
    /\ \A c \in Connections :
           c <= submitted => InChannel(c) + started[c] = 1
    /\ (pool_state = "alive" /\ submitted < MaxConns)
           => ENABLED ThreadPool_execute

\* The shape of the pool's state under SpecPool.
TypeOK ==
    /\ pool_state \in PoolStates
    /\ workers \in 0 .. MaxSize
    /\ lock_holder \in WorkerIds \cup {NoWorker}
    /\ thread \in [WorkerIds -> ThreadStates]
    /\ job \in [WorkerIds -> Jobs \cup {NoJob}]
    /\ submitted \in 0 .. MaxJobs

=============================================================================
